---- MODULE Spec2Model ----
(***************************************************************************)
(* A model of go-appkit's throttling core: the gRPC rate-limit interceptor *)
(* (grpcserver/interceptor/rate_limit_interceptor.go), the limiters behind *)
(* it, the in-flight limit engine and the LRU cache (lrucache) they use.    *)
(* Every subsystem has its own specification over its own variables; the   *)
(* variables of the other subsystems stay at their initial value.          *)
(***************************************************************************)
EXTENDS Integers, Sequences, FiniteSets, TLC

VARIABLES
    (* rate-limit interceptor *)
    opts,        \* rateLimitHandler: mode, dryRun, backlogLimit, maxKeys
    calls,       \* one record per gRPC call (goroutine)
    sharedErr,   \* the `err` variable the unary closure captures
    keysZone,    \* LRU list of the backlog slot channels, front first
    slots,       \* number of tokens in each slot channel
    nextChan,    \* next channel the valueProvider would make
    (* leaky-bucket limiter *)
    lbCfg,       \* maxRate, maxBurst, maxKeys
    lbNow,       \* the clock
    lbStore,     \* the GCRA store: key -> tat, an LRU list when maxKeys > 0
    lbAdmits,    \* times of the admissions of the observed key, last period
    lbSeen,      \* the keys Allow has been called with
    (* sliding-window limiter *)
    swCfg,       \* maxRate, maxKeys
    swNow,       \* the clock
    swStore,     \* LRU list of the limiters, one per key
    swAdmits,    \* times of the admissions of the observed key, last period
    swCallsNow,  \* calls for the observed key at the current instant
    swPrior,     \* the observed key had traffic before the current instant
    swSeen,      \* the keys Allow has been called with
    swRetryAfter, \* what the last rejection of the observed key returned
    (* in-flight limit engine *)
    iflCfg,      \* limit, backlogLimit; hold: handlers run until all calls came
    iflCalls,    \* one record per call
    iflSlots,    \* per key: tokens in the admission channel (capacity limit)
    iflBacklog,  \* per key: tokens in the backlog channel (capacity backlogLimit)
    (* LRU cache: GetOrLoadWithTTL and the operations that run beside it *)
    lruCfg,      \* maxEntries, defaultTTL
    lruList,     \* entries, most recently used first
    lruNow,      \* time.Now()
    lruCallers,  \* one record per GetOrLoadWithTTL call
    sfGroup,     \* per key: the caller whose load is in flight, 0 when none
    lruLoads,    \* per key: what each invocation of loadValue returned
    lruChanged,  \* keys removed, evicted, expired or added by other operations
    lruOps,      \* number of other operations so far
    (* LRU cache: what the operations report *)
    lruLast,     \* the last completed operation and what it saw and returned
    lruEvictions,\* metricsCollector.AddEvictions, summed
    lruUse,      \* per key: the operation that last used it (0: never)
    lruPending,  \* the GetOrLoadWithTTL call under way, if any
    lruAmount,   \* metricsCollector.SetAmount: the last value, -1 before the first
    (* gRPC server *)
    srvOpts,     \* the interceptors given to New, whether calls ever finish
    srvChains,   \* the interceptor chains New installed
    grpc,        \* grpc.Server: quit, done, serving, outstanding calls
    srvDone,     \* s.grpcServerDone: "nil", "open" or "closed"
    start,       \* the goroutine running Start
    stop,        \* the goroutine running Stop
    gs,          \* the goroutine running GracefulStop
    fatalError,  \* the fatalError channel (buffered)
    (* interceptors: request ID, logging, recovery, metrics *)
    icOpts,      \* logging interceptor installed, callStart, excludedMethods
    icCalls,     \* one record per call
    icInFlight,  \* promMetrics.InFlight per (service, method)
    icLog,       \* the entries written to the log, in order
    icLogger,    \* the logger variable the logging interceptor's closure captured
    (* request-ID interceptor *)
    ridCalls,    \* one record per call
    ridMinted,   \* number of IDs xid.New has produced
    (* throttle middleware: rule selection by tags *)
    tgCfg,       \* the middleware's tags and the rule with its zones
    tgRoutes,    \* the zones of the rule the middleware applies, once built
    tgCall       \* the last request and the zones it passed through

rlVars == <<opts, calls, sharedErr, keysZone, slots, nextChan>>
lbVars == <<lbCfg, lbNow, lbStore, lbAdmits, lbSeen>>

swVars == <<swCfg, swNow, swStore, swAdmits, swCallsNow, swPrior, swSeen, swRetryAfter>>
iflVars == <<iflCfg, iflCalls, iflSlots, iflBacklog>>
lruVars == <<lruCfg, lruList, lruNow, lruCallers, sfGroup, lruLoads, lruChanged, lruOps>>
cacheVars == <<lruLast, lruEvictions, lruUse, lruPending, lruAmount>>
srvVars == <<srvOpts, srvChains, grpc, srvDone, start, stop, gs, fatalError>>
icVars == <<icOpts, icCalls, icInFlight, icLog, icLogger, ridCalls, ridMinted>>
tgVars == <<tgCfg, tgRoutes, tgCall>>
nonRlVars == <<lbVars, swVars, iflVars, lruVars, cacheVars, srvVars, icVars, tgVars>>
nonLbVars == <<rlVars, swVars, iflVars, lruVars, cacheVars, srvVars, icVars, tgVars>>
nonSwVars == <<rlVars, lbVars, iflVars, lruVars, cacheVars, srvVars, icVars, tgVars>>
nonIflVars == <<rlVars, lbVars, swVars, lruVars, cacheVars, srvVars, icVars, tgVars>>
nonLruVars == <<rlVars, lbVars, swVars, iflVars, cacheVars, srvVars, icVars, tgVars>>
nonCacheVars == <<rlVars, lbVars, swVars, iflVars, srvVars, icVars, tgVars>>

nonSrvVars == <<rlVars, lbVars, swVars, iflVars, lruVars, cacheVars, icVars, tgVars>>

nonIcVars == <<rlVars, lbVars, swVars, iflVars, lruVars, cacheVars, srvVars, tgVars>>

nonTgVars == <<rlVars, lbVars, swVars, iflVars, lruVars, cacheVars, srvVars, icVars>>

vars == <<rlVars, lbVars, swVars, iflVars, lruVars, cacheVars, srvVars, icVars, tgVars>>

(***************************************************************************)
(* Bounds                                                                  *)
(***************************************************************************)
Calls == {1, 2}
SlotCalls == {1, 2, 3}
Keys == {"k1", "k2"}
MaxBacklogLimit == 1
MaxMaxKeys == 1
MaxRetries == 1
MaxRateCount == 2
MaxRateDuration == 4
MaxBurst == 1
MaxTime == 5
IflCalls == {1, 2, 3}
MaxInFlightLimit == 1
MaxInFlightBacklog == 1
LruCallers == {1, 2}
MaxLruEntries == 1
LruTTLs == {0, 1}
MaxLruTime == 2
MaxLruOps == 2
CacheKeys == {"k1", "k2", "k3"}
MaxCacheEntries == 3
MaxCacheOps == 4
MaxUserInterceptors == 2
MaxOutstanding == 1
IcCalls == {1, 2}

Max(a, b) == IF a >= b THEN a ELSE b
Min(a, b) == IF a <= b THEN a ELSE b

(***************************************************************************)
(* lrucache.LRUCache: the list of entries, most recently used first. The   *)
(* map `cache` is the set of keys of the list.                             *)
(***************************************************************************)
cacheEntry(k, v, e) == [key |-> k, value |-> v, expiresAt |-> e]

lruIndex(l, k) ==
    IF \E i \in 1..Len(l) : l[i].key = k
    THEN CHOOSE i \in 1..Len(l) : l[i].key = k
    ELSE 0

RemoveAt(l, i) == SubSeq(l, 1, i - 1) \o SubSeq(l, i + 1, Len(l))

MoveToFront_NoPromote(l, i) == l

MoveToFront(l, i) == <<l[i]>> \o RemoveAt(l, i)

lruGet_ExpiredAtExpiresAt(l, k, now) ==
    LET i == lruIndex(l, k) IN
    IF i = 0 THEN [list |-> l, ok |-> FALSE, value |-> 0]
    ELSE IF l[i].expiresAt # 0 /\ l[i].expiresAt <= now
         THEN [list |-> RemoveAt(l, i), ok |-> FALSE, value |-> 0]
         ELSE [list |-> MoveToFront(l, i), ok |-> TRUE, value |-> l[i].value]

\* c.get: a miss when the key is absent or expired (expired entries are
\* removed), else a hit that promotes the entry. expiresAt = 0 is the zero
\* time: no expiry.
lruGet(l, k, now) ==
    LET i == lruIndex(l, k) IN
    IF i = 0 THEN [list |-> l, ok |-> FALSE, value |-> 0]
    ELSE IF l[i].expiresAt # 0 /\ l[i].expiresAt < now
         THEN [list |-> RemoveAt(l, i), ok |-> FALSE, value |-> 0]
         ELSE [list |-> MoveToFront(l, i), ok |-> TRUE, value |-> l[i].value]

removeOldest(l) == IF Len(l) = 0 THEN l ELSE SubSeq(l, 1, Len(l) - 1)

addNew_NoEviction(l, maxEntries, e) == <<e>> \o l

addNew(l, maxEntries, e) ==
    LET pushed == <<e>> \o l IN
    IF Len(pushed) <= maxEntries THEN pushed ELSE removeOldest(pushed)

\* GetOrAddWithTTL under the cache lock; v is what valueProvider returns.
GetOrAddWithTTL(l, maxEntries, k, v, ttl, now) ==
    LET got == lruGet(l, k, now) IN
    IF got.ok THEN [list |-> got.list, value |-> got.value, exists |-> TRUE]
    ELSE [list |-> addNew(got.list, maxEntries,
                          cacheEntry(k, v, IF ttl > 0 THEN now + ttl ELSE 0)),
          value |-> v, exists |-> FALSE]

\* GetOrAdd: the default TTL of a cache made by New is 0.
GetOrAdd(l, maxEntries, k, v) == GetOrAddWithTTL(l, maxEntries, k, v, 0, 0)

(***************************************************************************)
(* The state of a subsystem that a specification does not run              *)
(***************************************************************************)
LbIdle ==
    /\ lbCfg = [count |-> 1, duration |-> 1, maxBurst |-> 0, maxKeys |-> 0]
    /\ lbNow = 0
    /\ lbStore = <<>>
    /\ lbAdmits = <<>>
    /\ lbSeen = {}

SwIdle ==
    /\ swCfg = [count |-> 1, duration |-> 1, maxKeys |-> 0]
    /\ swNow = 0
    /\ swStore = <<>>
    /\ swAdmits = <<>>
    /\ swCallsNow = 0
    /\ swPrior = FALSE
    /\ swSeen = {}
    /\ swRetryAfter = 0

NewIflCall == [pc |-> "idle", key |-> "", sawRunning |-> 0, sawWaiting |-> 0,
               handlerCalls |-> 0, result |-> "none"]

IflIdle ==
    /\ iflCfg = [limit |-> 1, backlogLimit |-> 0, hold |-> FALSE]
    /\ iflCalls = [c \in IflCalls |-> NewIflCall]
    /\ iflSlots = [k \in Keys |-> 0]
    /\ iflBacklog = [k \in Keys |-> 0]

NewLruCaller == [pc |-> "idle", key |-> "", role |-> "none", flight |-> 0,
                 value |-> 0, ttl |-> 0, exists |-> FALSE, err |-> FALSE,
                 seen |-> 0]

LruIdle ==
    /\ lruCfg = [maxEntries |-> 1, defaultTTL |-> 0]
    /\ lruList = <<>>
    /\ lruNow = 1
    /\ lruCallers = [c \in LruCallers |-> NewLruCaller]
    /\ sfGroup = [k \in Keys |-> 0]
    /\ lruLoads = [k \in Keys |-> <<>>]
    /\ lruChanged = {}
    /\ lruOps = 0

NoOp == [op |-> "none", key |-> "", found |-> FALSE, expiresAt |-> 0, ok |-> FALSE,
         dropped |-> {}, wasFull |-> FALSE, oldest |-> "", evicted |-> 0, size |-> 0,
         now |-> 0]

NoPending == [pc |-> "none", key |-> ""]

CacheIdle ==
    /\ lruLast = NoOp
    /\ lruEvictions = 0
    /\ lruUse = [k \in CacheKeys |-> 0]
    /\ lruPending = NoPending
    /\ lruAmount = -1

NewStart == [pc |-> "init", served |-> FALSE]
NewStop == [pc |-> "idle", gracefully |-> FALSE, timedOut |-> FALSE, synced |-> FALSE,
            saw |-> "unread", forced |-> FALSE, cancelled |-> 0]
NewGs == [pc |-> "none", synced |-> FALSE]
NewGrpc == [quit |-> FALSE, done |-> FALSE, serving |-> FALSE, outstanding |-> 0]

SrvIdle ==
    /\ srvOpts = [unary |-> <<>>, stream |-> <<>>, callsFinish |-> TRUE]
    /\ srvChains = [unary |-> <<>>, stream |-> <<>>]
    /\ grpc = NewGrpc
    /\ srvDone = "nil"
    /\ start = NewStart
    /\ stop = NewStop
    /\ gs = NewGs
    /\ fatalError = <<>>

\* full method names, letter by letter
IcMethods == {<<"/", "s", "/", "a">>, <<"/", "s", "/", "b">>, <<"s", "a">>}

\* splitFullMethodName: the leading slash is dropped and the rest is split
\* at its first slash; without a slash both parts are "unknown"
splitFullMethodName(fullMethod) ==
    LET trimmed == IF Len(fullMethod) > 0 /\ fullMethod[1] = "/"
                   THEN Tail(fullMethod) ELSE fullMethod
        slashes == {i \in 1..Len(trimmed) : trimmed[i] = "/"}
    IN  IF slashes = {} THEN <<<<"unknown">>, <<"unknown">>>>
        ELSE LET i == CHOOSE j \in slashes : \A h \in slashes : j <= h
             IN  <<SubSeq(trimmed, 1, i - 1), SubSeq(trimmed, i + 1, Len(trimmed))>>

IcLabels == {splitFullMethodName(m) : m \in IcMethods}

NewIcCall == [pc |-> "new", method |-> <<>>, ctxLogger |-> FALSE,
              handlerCalls |-> 0, panicking |-> FALSE, panicValue |-> "",
              err |-> "none", observed |-> "none", inside |-> FALSE]

RidCalls == {1, 2}

NewRidCall == [pc |-> "new", incoming |-> <<>>, incomingInt |-> <<>>, header |-> "none", intHeader |-> "none",
               ctxRequestID |-> "none", ctxIntRequestID |-> "none",
               minted |-> 0, handlerCalls |-> 0, err |-> "none"]

\* no middleware has been created
TgIdle ==
    /\ tgCfg = [tags |-> {}, ruleTags |-> {}, zoneTags |-> <<>>]
    /\ tgRoutes = [built |-> FALSE, zones |-> <<>>]
    /\ tgCall = [served |-> FALSE, path |-> <<>>, zones |-> <<>>]

IcIdle ==
    /\ icOpts = [logging |-> FALSE, recovery |-> FALSE, callStart |-> FALSE,
                 excludedMethods |-> {}]
    /\ icCalls = [c \in IcCalls |-> NewIcCall]
    /\ icInFlight = [l \in IcLabels |-> 0]
    /\ icLog = <<>>
    /\ icLogger = {}
    /\ ridCalls = [c \in RidCalls |-> NewRidCall]
    /\ ridMinted = 0

(***************************************************************************)
(* Rate-limit interceptor                                                  *)
(***************************************************************************)
\* newRateLimitHandler: dry-run turns the backlog off; maxKeys is 0 when no
\* getKey function is set.
newRateLimitHandler(mode, dryRun, backlogLimit, maxKeys) ==
    [mode |-> mode, dryRun |-> dryRun,
     optBacklogLimit |-> backlogLimit,
     backlogLimit |-> IF dryRun THEN 0 ELSE backlogLimit,
     maxKeys |-> maxKeys]

\* makeGrpcRateLimitBacklogSlotsProvider returns nil for backlogLimit = 0
BacklogEnabled == opts.backlogLimit # 0

NewCall ==
    [pc |-> "idle", key |-> "", first |-> "none", last |-> "none",
     handlerCalls |-> 0, onRejectCalls |-> 0, onErrorCalls |-> 0,
     errArg |-> "none", paramBacklogged |-> "none",
     allowCalls |-> 0, logger |-> "none", warned |-> FALSE,
     timers |-> FALSE, backlogged |-> FALSE, slot |-> 0,
     retryReady |-> FALSE, timeoutReady |-> FALSE, ctxDone |-> FALSE,
     retryAfter |-> 0, header |-> -1, seq |-> 0,
     hret |-> "none", ret |-> "none"]

HandlerResults == {"nil", "handlerErr"}

\* what getKey can return: (key, bypass, err)
KeyResults ==
    IF opts.maxKeys = 0
    THEN {[key |-> "", bypass |-> FALSE, err |-> FALSE]}
    ELSE {[key |-> k, bypass |-> FALSE, err |-> FALSE] : k \in Keys}
         \cup {[key |-> "", bypass |-> TRUE, err |-> FALSE],
               [key |-> "", bypass |-> FALSE, err |-> TRUE]}

\* what limiter.Allow can return
AllowResults == {"allow", "reject", "err"}

\* handle has returned v. The stream interceptor returns it; the unary
\* closure is about to assign it to the captured err, in a step of its own:
\* other calls run while the handler does.
Returned(c, rec, v) ==
    /\ calls' = [calls EXCEPT ![c] =
                    IF opts.mode = "stream"
                    THEN [rec EXCEPT !.pc = "done", !.hret = v, !.ret = v]
                    ELSE [rec EXCEPT !.pc = "assign", !.hret = v]]
    /\ UNCHANGED sharedErr

\* the number of calls whose handler has started
Started == Cardinality({d \in DOMAIN calls : calls[d].handlerCalls > 0})

\* handler(ctx) inside handle; seq numbers the calls in the order in which
\* their handlers start
InvokeHandler(c, rec, how) ==
    \E hr \in HandlerResults :
        Returned(c, [rec EXCEPT !.last = how, !.handlerCalls = @ + 1,
                                !.seq = IF rec.handlerCalls = 0 THEN Started + 1 ELSE @],
                 hr)

\* time is counted in ticks; durations are converted to seconds on the way
\* into the retry-after header
TicksPerSecond == 2

\* int(math.Ceil(params.EstimatedRetryAfter.Seconds()))
retryAfterSeconds(d) == (d + TicksPerSecond - 1) \div TicksPerSecond

\* h.onReject(ctx, h.makeParams(key, backlogged, retryAfter), logger): the
\* default sets the retry-after header and returns ResourceExhausted
onReject(c, rec, how) ==
    Returned(c, [rec EXCEPT !.last = how, !.onRejectCalls = @ + 1,
                            !.paramBacklogged = rec.backlogged,
                            !.header = retryAfterSeconds(rec.retryAfter)],
             "onRejectResult")

onError(c, rec, how, e) ==
    Returned(c, [rec EXCEPT !.last = how, !.onErrorCalls = @ + 1, !.errArg = e,
                            !.paramBacklogged = rec.backlogged],
             "onErrorResult")

\* getBacklogSlots(key): the one shared channel (channel 1) without keys,
\* else keysZone.GetOrAdd(key, make(chan struct{}, backlogLimit))
getBacklogSlots(k) ==
    IF opts.maxKeys = 0
    THEN [list |-> keysZone, value |-> 1, exists |-> TRUE]
    ELSE GetOrAdd(keysZone, opts.maxKeys, k, nextChan)

TrySend_OffByOne(ch) == slots[ch] <= opts.backlogLimit

\* select { case backlogSlots <- struct{}{}: ...; default: ... }
TrySend(ch) == slots[ch] < opts.backlogLimit

\* freeBacklogSlotIfNeeded without the reset of the flag
freeBacklogSlotIfNeeded_FlagKept(rec, sl) ==
    IF rec.backlogged /\ sl[rec.slot] > 0
    THEN [rec |-> rec, slots |-> [sl EXCEPT ![rec.slot] = @ - 1]]
    ELSE [rec |-> rec, slots |-> sl]

\* freeBacklogSlotIfNeeded: if backlogged, take a token from the call's
\* channel if there is one and reset the flag
freeBacklogSlotIfNeeded(rec, sl) ==
    IF rec.backlogged /\ sl[rec.slot] > 0
    THEN [rec |-> [rec EXCEPT !.backlogged = FALSE],
          slots |-> [sl EXCEPT ![rec.slot] = @ - 1]]
    ELSE [rec |-> rec, slots |-> sl]

\* the way out of handleBacklogProcessing: freeBacklogSlotIfNeeded is called
\* before the return statement and once more as a deferred call
freedTwice(rec) ==
    LET once == freeBacklogSlotIfNeeded(rec, slots)
    IN  freeBacklogSlotIfNeeded(once.rec, once.slots)

\* the call's record and the channels on the way out; the deferred
\* retryTimer.Stop() runs too
FreedRec_SlotKept(rec) == [rec EXCEPT !.retryReady = FALSE]

FreedRec(rec) == [freedTwice(rec).rec EXCEPT !.retryReady = FALSE]

FreedSlots(rec) == freedTwice(rec).slots

\* handleBacklogProcessing up to the first select of its loop
EnterBacklog(c, rec) ==
    LET got == getBacklogSlots(rec.key) IN
    /\ keysZone' = got.list
    /\ nextChan' = IF got.exists THEN nextChan ELSE nextChan + 1
    /\ IF TrySend(got.value)
       THEN /\ slots' = [slots EXCEPT ![got.value] = @ + 1]
            /\ calls' = [calls EXCEPT ![c] =
                            [rec EXCEPT !.pc = "waiting", !.first = "backlogged",
                                        !.backlogged = TRUE, !.slot = got.value,
                                        !.timers = TRUE]]
            /\ UNCHANGED sharedErr
       ELSE /\ UNCHANGED slots
            /\ onReject(c, [rec EXCEPT !.first = "full"], "full")

OverLimit_NoDryRun(c, rec) ==
    IF ~BacklogEnabled
    THEN /\ onReject(c, [rec EXCEPT !.first = "rejected"], "rejected")
         /\ UNCHANGED <<keysZone, slots, nextChan>>
    ELSE EnterBacklog(c, rec)

\* handle once Allow has reported the call as not admitted
OverLimit(c, rec) ==
    IF opts.dryRun
    THEN /\ \E lg \in BOOLEAN :
              InvokeHandler(c, [rec EXCEPT !.first = "dryRun",
                                   !.logger = IF lg THEN "set" ELSE "nil",
                                   !.warned = lg], "dryRun")
         /\ UNCHANGED <<keysZone, slots, nextChan>>
    ELSE IF ~BacklogEnabled
    THEN /\ onReject(c, [rec EXCEPT !.first = "rejected"], "rejected")
         /\ UNCHANGED <<keysZone, slots, nextChan>>
    ELSE EnterBacklog(c, rec)

\* bypass tested only after the limiter has been asked
OnBypass_AfterAllow(c, rec) ==
    /\ InvokeHandler(c, [rec EXCEPT !.first = "bypass", !.allowCalls = 1], "bypass")
    /\ UNCHANGED <<keysZone, slots, nextChan>>

\* handle when getKey reports bypass: the handler, nothing else
OnBypass(c, rec) ==
    /\ InvokeHandler(c, [rec EXCEPT !.first = "bypass"], "bypass")
    /\ UNCHANGED <<keysZone, slots, nextChan>>

\* rateLimitHandler.handle from its start to its return or to the first
\* select of the backlog loop
Arrive(c) ==
    /\ calls[c].pc = "idle"
    /\ \E kr \in KeyResults :
        LET rec == [calls[c] EXCEPT !.key = kr.key] IN
        \/ /\ kr.err
           /\ onError(c, [rec EXCEPT !.first = "keyErr"], "keyErr", "getKey")
           /\ UNCHANGED <<keysZone, slots, nextChan>>
        \/ /\ kr.bypass
           /\ OnBypass(c, rec)
        \/ /\ ~kr.err /\ ~kr.bypass
           /\ \E ar \in AllowResults :
               LET rec1 == [rec EXCEPT !.allowCalls = 1] IN
               \/ /\ ar = "err"
                  /\ onError(c, [rec1 EXCEPT !.first = "allowErr"], "allowErr", "allow")
                  /\ UNCHANGED <<keysZone, slots, nextChan>>
               \/ /\ ar = "allow"
                  /\ InvokeHandler(c, [rec1 EXCEPT !.first = "allowed"], "allowed")
                  /\ UNCHANGED <<keysZone, slots, nextChan>>
               \/ /\ ar = "reject"
                  /\ OverLimit(c, rec1)
    /\ UNCHANGED opts
    /\ UNCHANGED nonRlVars

\* retryTimer.C becomes ready
RetryTimerFires(c) ==
    /\ calls[c].pc = "waiting"
    /\ ~calls[c].retryReady
    /\ calls[c].allowCalls < 1 + MaxRetries
    /\ calls' = [calls EXCEPT ![c].retryReady = TRUE]
    /\ UNCHANGED <<opts, sharedErr, keysZone, slots, nextChan>>
    /\ UNCHANGED nonRlVars

\* backlogTimeoutTimer.C becomes ready: backlogTimeout has elapsed
BacklogTimerFires(c) ==
    /\ calls[c].pc = "waiting"
    /\ ~calls[c].timeoutReady
    /\ calls' = [calls EXCEPT ![c].timeoutReady = TRUE]
    /\ UNCHANGED <<opts, sharedErr, keysZone, slots, nextChan>>
    /\ UNCHANGED nonRlVars

\* the call's context is cancelled while it waits
CtxCancel(c) ==
    /\ calls[c].pc = "waiting"
    /\ ~calls[c].ctxDone
    /\ calls' = [calls EXCEPT ![c].ctxDone = TRUE]
    /\ UNCHANGED <<opts, sharedErr, keysZone, slots, nextChan>>
    /\ UNCHANGED nonRlVars

\* the select of the backlog loop takes the retry timer: Allow again
SelectRetry(c) ==
    /\ calls[c].pc = "waiting"
    /\ calls[c].retryReady
    /\ \E ar \in AllowResults :
        LET rec == [calls[c] EXCEPT !.allowCalls = @ + 1, !.retryReady = FALSE] IN
        \/ /\ ar = "err"
           /\ slots' = FreedSlots(rec)
           /\ onError(c, FreedRec(rec), "retryErr", "allow")
        \/ /\ ar = "allow"
           /\ slots' = FreedSlots(rec)
           /\ InvokeHandler(c, FreedRec(rec), "admitted")
        \/ /\ ar = "reject"
           /\ calls' = [calls EXCEPT ![c] = rec]
           /\ UNCHANGED <<sharedErr, slots>>
    /\ UNCHANGED <<opts, keysZone, nextChan>>
    /\ UNCHANGED nonRlVars

\* the select takes the backlog timer and the loop goes on
SelectTimeout_LoopGoesOn(c) ==
    /\ calls[c].pc = "waiting"
    /\ calls[c].timeoutReady
    /\ calls' = [calls EXCEPT ![c].timeoutReady = FALSE]
    /\ UNCHANGED <<opts, sharedErr, keysZone, slots, nextChan>>
    /\ UNCHANGED nonRlVars

\* the select takes the backlog timer
SelectTimeout(c) ==
    /\ calls[c].pc = "waiting"
    /\ calls[c].timeoutReady
    /\ slots' = FreedSlots(calls[c])
    /\ onReject(c, FreedRec(calls[c]), "timeout")
    /\ UNCHANGED <<opts, keysZone, nextChan>>
    /\ UNCHANGED nonRlVars

\* the select takes ctx.Done()
SelectCtxDone(c) ==
    /\ calls[c].pc = "waiting"
    /\ calls[c].ctxDone
    /\ slots' = FreedSlots(calls[c])
    /\ onError(c, FreedRec(calls[c]), "cancel", "ctx")
    /\ UNCHANGED <<opts, keysZone, nextChan>>
    /\ UNCHANGED nonRlVars

\* the unary closure: err = rlHandler.handle(...), err being the variable
\* that every call of the interceptor shares
UnaryAssign(c) ==
    /\ calls[c].pc = "assign"
    /\ sharedErr' = calls[c].hret
    /\ calls' = [calls EXCEPT ![c].pc = "check"]
    /\ UNCHANGED <<opts, keysZone, slots, nextChan>>
    /\ UNCHANGED nonRlVars

\* the unary closure after handle: if err != nil { return nil, err };
\* return handler(ctx, req)
UnaryCheck(c) ==
    /\ calls[c].pc = "check"
    /\ IF sharedErr # "nil"
       THEN calls' = [calls EXCEPT ![c].pc = "done", ![c].ret = sharedErr]
       ELSE \E hr \in HandlerResults :
              calls' = [calls EXCEPT ![c].pc = "done", ![c].ret = hr,
                                     ![c].handlerCalls = @ + 1,
                                     ![c].seq = IF calls[c].handlerCalls = 0
                                                THEN Started + 1 ELSE @]
    /\ UNCHANGED <<opts, sharedErr, keysZone, slots, nextChan>>
    /\ UNCHANGED nonRlVars

InitRL ==
    /\ \E mode \in {"unary", "stream"}, dr \in BOOLEAN,
          bl \in 0..MaxBacklogLimit, mk \in 0..MaxMaxKeys :
          opts = newRateLimitHandler(mode, dr, bl, mk)
    /\ calls = [c \in Calls |-> NewCall]
    /\ sharedErr = "nil"
    /\ keysZone = <<>>
    /\ slots = [ch \in 1..(Cardinality(Calls) + 1) |-> 0]
    /\ nextChan = IF opts.maxKeys = 0 THEN 2 ELSE 1
    /\ LbIdle /\ SwIdle /\ IflIdle /\ LruIdle /\ CacheIdle /\ SrvIdle /\ IcIdle /\ TgIdle

NextRL ==
    \E c \in Calls :
        \/ Arrive(c)
        \/ RetryTimerFires(c)
        \/ BacklogTimerFires(c)
        \/ CtxCancel(c)
        \/ SelectRetry(c)
        \/ SelectTimeout(c)
        \/ SelectCtxDone(c)
        \/ UnaryAssign(c)
        \/ UnaryCheck(c)

Spec == InitRL /\ [][NextRL]_vars

(***************************************************************************)
(* The backlog of a stream interceptor under three calls. The calls are    *)
(* interchangeable, so they are numbered in their order of arrival.        *)
(***************************************************************************)
InitSlots ==
    /\ \E bl \in 1..MaxBacklogLimit, mk \in 0..MaxMaxKeys :
          opts = newRateLimitHandler("stream", FALSE, bl, mk)
    /\ calls = [c \in SlotCalls |-> NewCall]
    /\ sharedErr = "nil"
    /\ keysZone = <<>>
    /\ slots = [ch \in 1..(Cardinality(SlotCalls) + 1) |-> 0]
    /\ nextChan = IF opts.maxKeys = 0 THEN 2 ELSE 1
    /\ LbIdle /\ SwIdle /\ IflIdle /\ LruIdle /\ CacheIdle /\ SrvIdle /\ IcIdle /\ TgIdle

ArriveInOrder(c) ==
    /\ \A d \in SlotCalls : d < c => calls[d].pc # "idle"
    /\ Arrive(c)

NextSlots ==
    \E c \in SlotCalls :
        \/ ArriveInOrder(c)
        \/ RetryTimerFires(c)
        \/ BacklogTimerFires(c)
        \/ CtxCancel(c)
        \/ SelectRetry(c)
        \/ SelectTimeout(c)
        \/ SelectCtxDone(c)

SpecSlots == InitSlots /\ [][NextSlots]_vars

(***************************************************************************)
(* Claims about the rate-limit interceptor                                 *)
(***************************************************************************)
Finished(c) == calls[c].pc = "done"

\* the calls that hold a token of a slot channel for key k
Waiting(k) == {c \in DOMAIN calls : calls[c].backlogged /\ calls[c].key = k}

\* the keys the limiter and the backlog have been asked about
KeysUsed ==
    {calls[c].key : c \in {d \in DOMAIN calls :
                              calls[d].first \notin {"none", "keyErr", "bypass"}}}

\* C1: with dry-run off and the backlog disabled, a call that Allow did not
\* admit returns what onReject returned and its handler is never invoked,
\* in every interleaving of the calls of one interceptor.
C1_RejectedCallReturnsOnReject ==
    \A c \in DOMAIN calls :
        (/\ ~opts.dryRun /\ ~BacklogEnabled
         /\ Finished(c) /\ calls[c].allowCalls = 1 /\ calls[c].first = "rejected")
            => /\ calls[c].ret = "onRejectResult"
               /\ calls[c].handlerCalls = 0

\* C4: for every key, the calls waiting in the backlog (a token placed and
\* not yet released) never number more than backlogLimit, whatever the
\* number of distinct keys.
C4_BacklogPerKeyBounded ==
    \A k \in Keys \cup {""} : Cardinality(Waiting(k)) <= opts.backlogLimit

\* C4 as amended: the bound holds as long as the calls use at most maxKeys
\* distinct keys (or no key function is set), so that no slot channel is
\* evicted from the LRU zone while calls wait on it.
C4_BacklogBoundedWithinMaxKeys ==
    (opts.maxKeys = 0 \/ Cardinality(KeysUsed) <= opts.maxKeys)
        => \A k \in Keys \cup {""} : Cardinality(Waiting(k)) <= opts.backlogLimit

C4_Witness ==
    /\ opts.maxKeys = 0 \/ Cardinality(KeysUsed) <= opts.maxKeys
    /\ \E k \in Keys \cup {""} :
          /\ Cardinality(Waiting(k)) = opts.backlogLimit
          /\ \E c \in DOMAIN calls : calls[c].first = "full" /\ calls[c].key = k

C7_FullBacklogRejectsAtOnce ==
    \A c \in DOMAIN calls :
        (Finished(c) /\ calls[c].first = "full")
            => /\ calls[c].ret = "onRejectResult"
               /\ calls[c].onRejectCalls = 1
               /\ ~calls[c].timers
               /\ calls[c].allowCalls = 1
               /\ calls[c].handlerCalls = 0

\* C8: a backlogged call that no retry admits and whose select takes the
\* backlog timer ends with onReject, and its handler is not invoked.
C8_BacklogTimeoutRejects ==
    \A c \in DOMAIN calls :
        (Finished(c) /\ calls[c].first = "backlogged" /\ calls[c].last = "timeout")
            => /\ calls[c].ret = "onRejectResult"
               /\ calls[c].onRejectCalls = 1
               /\ calls[c].handlerCalls = 0

\* C9: a backlogged call whose wait ends on the cancellation of its context
\* ends with onError carrying the context's error, has released its slot,
\* and its handler is not invoked.
C9_CancelledWaiterGetsCtxError ==
    \A c \in DOMAIN calls :
        (Finished(c) /\ calls[c].first = "backlogged" /\ calls[c].last = "cancel")
            => /\ calls[c].ret = "onErrorResult"
               /\ calls[c].onErrorCalls = 1 /\ calls[c].errArg = "ctx"
               /\ ~calls[c].backlogged
               /\ calls[c].handlerCalls = 0

(***************************************************************************)
(* Leaky-bucket limiter (GCRA). The observed key is "k1" with a key        *)
(* function and "" without one; "k2" is another key of the same limiter.   *)
(***************************************************************************)
\* throttled.PerDuration: the emission interval T = duration / count
EmissionInterval(cfg) == cfg.duration \div cfg.count

\* the burst tolerance tau = maxBurst * T
BurstTolerance(cfg) == cfg.maxBurst * EmissionInterval(cfg)

\* the GCRA store: a map without maxKeys, else an LRU of maxKeys entries
StoreGet(store, k) == lruGet(store, k, 0)

StoreSet(store, maxKeys, k, tat) ==
    LET i == lruIndex(store, k) IN
    IF i # 0 THEN <<cacheEntry(k, tat, 0)>> \o RemoveAt(store, i)
    ELSE IF maxKeys = 0 THEN <<cacheEntry(k, tat, 0)>> \o store
    ELSE addNew(store, maxKeys, cacheEntry(k, tat, 0))

\* one GCRA decision on the cell of key k at time now: a cell not in the
\* store starts with tat = now
RateLimitCtx(cfg, store, k, now) ==
    LET got == StoreGet(store, k)
        tat == IF got.ok THEN got.value ELSE now
        T   == EmissionInterval(cfg)
        tau == BurstTolerance(cfg)
    IN  IF tat - tau <= now
        THEN [limited |-> FALSE, retryAfter |-> 0,
              store |-> StoreSet(got.list, cfg.maxKeys, k, Max(now, tat) + T)]
        ELSE [limited |-> TRUE, retryAfter |-> tat - tau - now,
              store |-> got.list]

LeakyBucketAllow_IgnoreLimited(res) ==
    [allow |-> TRUE, retryAfter |-> res.retryAfter]

\* grpcLeakyBucketLimiter.Allow: return !limited, res.RetryAfter, nil
LeakyBucketAllow(res) ==
    [allow |-> ~res.limited, retryAfter |-> res.retryAfter]

LbKeys == IF lbCfg.maxKeys = 0 THEN {""} ELSE Keys
LbObserved == IF lbCfg.maxKeys = 0 THEN "" ELSE "k1"

\* the admissions that a window of one rate period ending now can hold
Recent(admits, now, duration) ==
    SelectSeq(admits, LAMBDA t : t >= now - duration)

\* the history stops growing two admissions past the claimed bound
LbHistoryCap == lbCfg.count + lbCfg.maxBurst + 3

\* a call of Allow(ctx, k) at the current time
LbAllow(k) ==
    LET res == RateLimitCtx(lbCfg, lbStore, k, lbNow)
        out == LeakyBucketAllow(res)
    IN  /\ lbStore' = res.store
        /\ lbAdmits' =
              IF out.allow /\ k = LbObserved /\ Len(lbAdmits) < LbHistoryCap
              THEN Append(lbAdmits, lbNow) ELSE lbAdmits
        /\ lbSeen' = lbSeen \cup {k}
        /\ UNCHANGED <<lbCfg, lbNow>>
        /\ UNCHANGED nonLbVars

\* time passes
LbTick ==
    /\ lbNow < MaxTime
    /\ lbNow' = lbNow + 1
    /\ lbAdmits' = Recent(lbAdmits, lbNow + 1, lbCfg.duration)
    /\ UNCHANGED <<lbCfg, lbStore, lbSeen>>
    /\ UNCHANGED nonLbVars

RlIdle ==
    /\ opts = newRateLimitHandler("stream", FALSE, 0, 0)
    /\ calls = [c \in Calls |-> NewCall]
    /\ sharedErr = "nil"
    /\ keysZone = <<>>
    /\ slots = [ch \in 1..(Cardinality(Calls) + 1) |-> 0]
    /\ nextChan = 2

InitLb ==
    /\ \E n \in 1..MaxRateCount, d \in 1..MaxRateDuration,
          b \in 0..MaxBurst, mk \in 0..MaxMaxKeys :
          /\ d >= n
          /\ lbCfg = [count |-> n, duration |-> d, maxBurst |-> b, maxKeys |-> mk]
    /\ lbNow = 0
    /\ lbStore = <<>>
    /\ lbAdmits = <<>>
    /\ lbSeen = {}
    /\ RlIdle /\ SwIdle /\ IflIdle /\ LruIdle /\ CacheIdle /\ SrvIdle /\ IcIdle /\ TgIdle

NextLb ==
    \/ \E k \in LbKeys : LbAllow(k)
    \/ LbTick

SpecLb == InitLb /\ [][NextLb]_vars

\* the admissions of the observed key in the window [lbNow - duration, lbNow]
LbInClosedWindow == Len(Recent(lbAdmits, lbNow, lbCfg.duration))

\* ... and in the window (lbNow - duration, lbNow]
LbInHalfOpenWindow == Len(Recent(lbAdmits, lbNow, lbCfg.duration - 1))

LbExactRate == lbCfg.duration % lbCfg.count = 0

\* the store has never had to evict: it holds every key it was asked about
LbWithinMaxKeys == lbCfg.maxKeys = 0 \/ Cardinality(lbSeen) <= lbCfg.maxKeys

\* C2: leaky bucket: every window [t, t + rate.Duration] holds at most
\* rate.Count + maxBurst admissions of a key, for any arrivals over any
\* number of distinct keys.
C2_LeakyBucketWindowBound ==
    LbInClosedWindow <= lbCfg.count + lbCfg.maxBurst

\* C2 as amended: when rate.Duration is a multiple of rate.Count and the
\* limiter is used with at most maxKeys distinct keys (or no key function),
\* a window [t, t + rate.Duration] holds at most rate.Count + maxBurst + 1
\* admissions of a key, and a window that leaves out one of its end points
\* at most rate.Count + maxBurst.
C2_LeakyBucketWindowBoundAmended ==
    (LbExactRate /\ LbWithinMaxKeys)
        => /\ LbInClosedWindow <= lbCfg.count + lbCfg.maxBurst + 1
           /\ LbInHalfOpenWindow <= lbCfg.count + lbCfg.maxBurst

C2_Witness ==
    /\ LbExactRate /\ LbWithinMaxKeys /\ lbCfg.maxKeys > 0
    /\ lbCfg.maxBurst > 0 /\ lbCfg.count > 1
    /\ LbInClosedWindow = lbCfg.count + lbCfg.maxBurst + 1
    /\ LbInHalfOpenWindow = lbCfg.count + lbCfg.maxBurst

(***************************************************************************)
(* Sliding-window limiter. The observed key is "k1" with a key function    *)
(* and "" without one.                                                      *)
(***************************************************************************)
\* slidingwindow.NewLimiter: two empty windows that start at time 0
NewLimiter == [start |-> 0, curr |-> 0, prev |-> 0]

\* now.Truncate(size)
Truncate(now, size) == now - (now % size)

\* Limiter.advance: roll the windows over when now is past the current one
advance(lim, now, size) ==
    LET newCurrStart == Truncate(now, size)
        diffSize == (newCurrStart - lim.start) \div size
    IN  IF diffSize >= 1
        THEN [start |-> newCurrStart, curr |-> 0,
              prev |-> IF diffSize = 1 THEN lim.curr ELSE 0]
        ELSE lim

\* the estimate of Limiter.AllowN: the previous window weighted by the
\* share of it the sliding window still covers, plus the current window
Estimate(lim, now, size) ==
    (((size - (now - lim.start)) * lim.prev) \div size) + lim.curr

\* Limiter.Allow: [ok, lim]
LimiterAllow(lim0, now, size, limit) ==
    LET lim == advance(lim0, now, size) IN
    IF Estimate(lim, now, size) + 1 > limit
    THEN [ok |-> FALSE, lim |-> lim]
    ELSE [ok |-> TRUE, lim |-> [lim EXCEPT !.curr = @ + 1]]

\* getLimiter(key): the one limiter without keys, else store.GetOrAdd
getLimiter(store, maxKeys, k) ==
    IF maxKeys = 0
    THEN IF Len(store) = 0
         THEN [list |-> <<cacheEntry(k, NewLimiter, 0)>>, value |-> NewLimiter]
         ELSE [list |-> store, value |-> store[1].value]
    ELSE LET got == GetOrAdd(store, maxKeys, k, NewLimiter)
         IN  [list |-> got.list, value |-> got.value]

SlidingWindowAllow_AlwaysTrue(ok, now, duration) ==
    IF ok THEN [allow |-> TRUE, retryAfter |-> 0]
    ELSE [allow |-> TRUE, retryAfter |-> duration - (now % duration)]

\* grpcSlidingWindowLimiter.Allow, given what the key's limiter answered
SlidingWindowAllow(ok, now, duration) ==
    IF ok THEN [allow |-> TRUE, retryAfter |-> 0]
    ELSE [allow |-> FALSE,
          retryAfter |-> (Truncate(now, duration) + duration) - now]

SwKeys == IF swCfg.maxKeys = 0 THEN {""} ELSE Keys
SwObserved == IF swCfg.maxKeys = 0 THEN "" ELSE "k1"

\* the history stops growing two admissions past the claimed bound, and an
\* instant holds at most two calls more than the limit admits
SwHistoryCap == swCfg.count + 3
SwCallsCap == swCfg.count + 2

\* a call of Allow(ctx, k) at the current time; the limiter of k is the
\* front entry of the store once getLimiter has returned
SwAllow(k) ==
    LET got == getLimiter(swStore, swCfg.maxKeys, k)
        res == LimiterAllow(got.value, swNow, swCfg.duration, swCfg.count)
        out == SlidingWindowAllow(res.ok, swNow, swCfg.duration)
    IN  /\ k = SwObserved => swCallsNow < SwCallsCap
        /\ swStore' = [got.list EXCEPT ![1].value = res.lim]
        /\ swAdmits' =
              IF out.allow /\ k = SwObserved /\ Len(swAdmits) < SwHistoryCap
              THEN Append(swAdmits, swNow) ELSE swAdmits
        /\ swCallsNow' = IF k = SwObserved THEN swCallsNow + 1 ELSE swCallsNow
        /\ swRetryAfter' =
              IF k = SwObserved /\ ~out.allow THEN out.retryAfter ELSE swRetryAfter
        /\ swSeen' = swSeen \cup {k}
        /\ UNCHANGED <<swCfg, swNow, swPrior>>
        /\ UNCHANGED nonSwVars

\* time passes
SwTick ==
    /\ swNow < MaxTime
    /\ swNow' = swNow + 1
    /\ swAdmits' = Recent(swAdmits, swNow + 1, swCfg.duration)
    /\ swCallsNow' = 0
    /\ swPrior' = (swPrior \/ swCallsNow > 0)
    /\ swRetryAfter' = 0
    /\ UNCHANGED <<swCfg, swStore, swSeen>>
    /\ UNCHANGED nonSwVars

InitSw ==
    /\ \E n \in 1..MaxRateCount, d \in 1..MaxRateDuration, mk \in 0..MaxMaxKeys :
          swCfg = [count |-> n, duration |-> d, maxKeys |-> mk]
    /\ swNow = 0
    /\ swStore = <<>>
    /\ swAdmits = <<>>
    /\ swCallsNow = 0
    /\ swPrior = FALSE
    /\ swSeen = {}
    /\ swRetryAfter = 0
    /\ RlIdle /\ LbIdle /\ IflIdle /\ LruIdle /\ CacheIdle /\ SrvIdle /\ IcIdle /\ TgIdle

NextSw ==
    \/ \E k \in SwKeys : SwAllow(k)
    \/ SwTick

SpecSw == InitSw /\ [][NextSw]_vars

\* the admissions of the observed key in the window [swNow - duration, swNow]
SwInClosedWindow == Len(Recent(swAdmits, swNow, swCfg.duration))

\* ... and in the fixed window that holds swNow, up to swNow
SwInFixedWindow ==
    Len(Recent(swAdmits, swNow, swNow - Truncate(swNow, swCfg.duration)))

SwWithinMaxKeys == swCfg.maxKeys = 0 \/ Cardinality(swSeen) <= swCfg.maxKeys

\* N concurrent calls for a key without prior traffic: min(N, Count) admitted
SwFreshBurst ==
    ~swPrior => Len(swAdmits) = Min(swCallsNow, swCfg.count)

\* C3: sliding window: every window [t, t + rate.Duration], aligned to the
\* fixed windows or not, holds at most rate.Count admissions of a key; of N
\* concurrent calls for a key with no prior traffic min(N, rate.Count) are
\* admitted.
C3_SlidingWindowBound ==
    /\ SwInClosedWindow <= swCfg.count
    /\ SwFreshBurst

\* C3 as amended: as long as the limiter is used with at most maxKeys
\* distinct keys (or no key function), every fixed window
\* [n * Duration, (n + 1) * Duration) holds at most rate.Count admissions of
\* a key, so a window of another alignment at most 2 * rate.Count; of N
\* calls for a key at one instant with no prior traffic min(N, rate.Count)
\* are admitted.
C3_SlidingWindowBoundAmended ==
    SwWithinMaxKeys
        => /\ SwInFixedWindow <= swCfg.count
           /\ SwInClosedWindow <= 2 * swCfg.count
           /\ SwFreshBurst

C3_Witness ==
    /\ SwWithinMaxKeys /\ swCfg.maxKeys > 0 /\ swCfg.count > 1
    /\ swPrior /\ swNow % swCfg.duration # 0
    /\ SwInFixedWindow = swCfg.count
    /\ SwInClosedWindow > swCfg.count
    /\ swCallsNow > swCfg.count

(***************************************************************************)
(* In-flight limit engine: per key an admission channel of capacity limit  *)
(* and a backlog channel of capacity backlogLimit.                          *)
(***************************************************************************)
IflTryAcquire_OffByOne(k) == iflSlots[k] <= iflCfg.limit

\* non-blocking acquire of an admission slot
IflTryAcquire(k) == iflSlots[k] < iflCfg.limit

\* non-blocking send of a token into the backlog channel
IflTryBacklog(k) == iflBacklog[k] < iflCfg.backlogLimit

\* a call arrives: admitted, queued, or rejected because the backlog is full
IflArrive(c) ==
    /\ iflCalls[c].pc = "idle"
    /\ \A d \in IflCalls : d < c => iflCalls[d].pc # "idle"
    /\ \E k \in Keys :
        LET rec == [iflCalls[c] EXCEPT !.key = k,
                                       !.sawRunning = iflSlots[k],
                                       !.sawWaiting = iflBacklog[k]]
        IN  IF IflTryAcquire(k)
            THEN /\ iflSlots' = [iflSlots EXCEPT ![k] = @ + 1]
                 /\ iflCalls' = [iflCalls EXCEPT ![c] =
                        [rec EXCEPT !.pc = "running", !.handlerCalls = @ + 1]]
                 /\ UNCHANGED iflBacklog
            ELSE IF IflTryBacklog(k)
            THEN /\ iflBacklog' = [iflBacklog EXCEPT ![k] = @ + 1]
                 /\ iflCalls' = [iflCalls EXCEPT ![c] = [rec EXCEPT !.pc = "waiting"]]
                 /\ UNCHANGED iflSlots
            ELSE /\ iflCalls' = [iflCalls EXCEPT ![c] =
                        [rec EXCEPT !.pc = "done", !.result = "rejected"]]
                 /\ UNCHANGED <<iflSlots, iflBacklog>>
    /\ UNCHANGED iflCfg
    /\ UNCHANGED nonIflVars

\* a waiter gets an admission slot: it leaves the backlog and runs the handler
IflAcquire(c) ==
    /\ iflCalls[c].pc = "waiting"
    /\ IflTryAcquire(iflCalls[c].key)
    /\ iflSlots' = [iflSlots EXCEPT ![iflCalls[c].key] = @ + 1]
    /\ iflBacklog' = [iflBacklog EXCEPT ![iflCalls[c].key] = @ - 1]
    /\ iflCalls' = [iflCalls EXCEPT ![c].pc = "running", ![c].handlerCalls = @ + 1]
    /\ UNCHANGED iflCfg
    /\ UNCHANGED nonIflVars

\* the backlog timeout of a waiter fires: onReject
IflTimeout(c) ==
    /\ iflCalls[c].pc = "waiting"
    /\ iflBacklog' = [iflBacklog EXCEPT ![iflCalls[c].key] = @ - 1]
    /\ iflCalls' = [iflCalls EXCEPT ![c].pc = "done", ![c].result = "timeout"]
    /\ UNCHANGED <<iflCfg, iflSlots>>
    /\ UNCHANGED nonIflVars

\* the context of a waiter is cancelled: onError
IflCancel(c) ==
    /\ iflCalls[c].pc = "waiting"
    /\ iflBacklog' = [iflBacklog EXCEPT ![iflCalls[c].key] = @ - 1]
    /\ iflCalls' = [iflCalls EXCEPT ![c].pc = "done", ![c].result = "cancelled"]
    /\ UNCHANGED <<iflCfg, iflSlots>>
    /\ UNCHANGED nonIflVars

\* the handler returns and the admission slot is released; a long-running
\* handler (hold) returns only once every call has arrived
IflFinish(c) ==
    /\ iflCalls[c].pc = "running"
    /\ iflCfg.hold => \A d \in IflCalls : iflCalls[d].pc # "idle"
    /\ iflSlots' = [iflSlots EXCEPT ![iflCalls[c].key] = @ - 1]
    /\ iflCalls' = [iflCalls EXCEPT ![c].pc = "done", ![c].result = "ok"]
    /\ UNCHANGED <<iflCfg, iflBacklog>>
    /\ UNCHANGED nonIflVars

InitIfl ==
    /\ \E l \in 1..MaxInFlightLimit, b \in 0..MaxInFlightBacklog, h \in BOOLEAN :
          iflCfg = [limit |-> l, backlogLimit |-> b, hold |-> h]
    /\ iflCalls = [c \in IflCalls |-> NewIflCall]
    /\ iflSlots = [k \in Keys |-> 0]
    /\ iflBacklog = [k \in Keys |-> 0]
    /\ RlIdle /\ LbIdle /\ SwIdle /\ LruIdle /\ CacheIdle /\ SrvIdle /\ IcIdle /\ TgIdle

NextIfl ==
    \E c \in IflCalls :
        \/ IflArrive(c)
        \/ IflAcquire(c)
        \/ IflTimeout(c)
        \/ IflCancel(c)
        \/ IflFinish(c)

SpecIfl == InitIfl /\ [][NextIfl]_vars

IflOf(k, pcs) == {c \in IflCalls : iflCalls[c].key = k /\ iflCalls[c].pc \in pcs}
IflWith(k, results) ==
    {c \in IflCalls : iflCalls[c].key = k /\ iflCalls[c].result \in results}

IflBounds(k) ==
    /\ Cardinality(IflOf(k, {"running"})) <= iflCfg.limit
    /\ Cardinality(IflOf(k, {"waiting"})) <= iflCfg.backlogLimit
    /\ Cardinality(IflOf(k, {"running"})) = iflSlots[k]
    /\ Cardinality(IflOf(k, {"waiting"})) = iflBacklog[k]
    /\ \A c \in IflOf(k, {"running", "waiting", "done"}) :
          (iflCalls[c].sawRunning = iflCfg.limit
             /\ iflCalls[c].sawWaiting = iflCfg.backlogLimit)
            <=> (iflCalls[c].result = "rejected")
    /\ \A c \in IflWith(k, {"rejected", "timeout", "cancelled"}) :
          iflCalls[c].handlerCalls = 0

\* all calls came while the first handlers were still running, and all ended
IflAllHeldAndDone ==
    /\ iflCfg.hold
    /\ \A c \in IflCalls : iflCalls[c].pc = "done"

\* of the N calls for key k, min(N, limit + backlogLimit) completed with
\* success and the others were rejected on arrival
IflExactCounts(k) ==
    /\ Cardinality(IflWith(k, {"ok"})) =
          Min(Cardinality(IflOf(k, {"done"})), iflCfg.limit + iflCfg.backlogLimit)
    /\ Cardinality(IflWith(k, {"rejected"})) =
          Cardinality(IflOf(k, {"done"})) - Cardinality(IflWith(k, {"ok"}))

\* C5: for every key at most limit calls run the handler and at most
\* backlogLimit wait; a call that arrives while limit run and backlogLimit
\* wait is rejected; of N > limit + backlogLimit simultaneous long-running
\* calls for a key exactly limit + backlogLimit complete with success and the
\* other N - (limit + backlogLimit) are rejected on arrival.
C5_InFlightBound ==
    \A k \in Keys :
        /\ IflBounds(k)
        /\ IflAllHeldAndDone => IflExactCounts(k)

\* C5 (amended): the bounds hold always; the counts hold when no waiting call
\* ran into its backlog timeout or had its context cancelled. A waiter whose
\* backlog timeout fires before a slot frees is rejected too, so fewer than
\* limit + backlogLimit calls complete.
C5_InFlightBoundAmended ==
    \A k \in Keys :
        /\ IflBounds(k)
        /\ (IflAllHeldAndDone /\ IflWith(k, {"timeout", "cancelled"}) = {})
              => IflExactCounts(k)

C5_Witness ==
    /\ iflCfg.hold /\ iflCfg.backlogLimit > 0
    /\ \A c \in IflCalls : iflCalls[c].pc = "done" /\ iflCalls[c].key = "k1"
    /\ Cardinality(IflCalls) > iflCfg.limit + iflCfg.backlogLimit
    /\ Cardinality(IflWith("k1", {"ok"})) = iflCfg.limit + iflCfg.backlogLimit
    /\ Cardinality(IflWith("k1", {"rejected"})) =
          Cardinality(IflCalls) - (iflCfg.limit + iflCfg.backlogLimit)

(***************************************************************************)
(* LRU cache: GetOrLoadWithTTL with the single-flight group, beside Add,   *)
(* Remove and Get of other callers and the passing of time.                *)
(***************************************************************************)
AddWithTTL_NotStored(l, maxEntries, k, v, ttl, now) == l

\* AddWithTTL: an entry of the key is replaced and promoted, a new key is
\* pushed to the front (evicting the oldest entry of a full cache)
AddWithTTL(l, maxEntries, k, v, ttl, now) ==
    LET expiresAt == IF ttl > 0 THEN now + ttl ELSE 0
        i == lruIndex(l, k)
    IN  IF i # 0
        THEN <<cacheEntry(k, v, expiresAt)>> \o RemoveAt(l, i)
        ELSE addNew(l, maxEntries, cacheEntry(k, v, expiresAt))

\* Remove: drops the entry of the key if there is one
Remove(l, k) == IF lruIndex(l, k) = 0 THEN l ELSE RemoveAt(l, lruIndex(l, k))

lruKeysOf(l) == {l[i].key : i \in 1..Len(l)}

\* keys whose entry left the cache in the step
lruDropped(l) == lruKeysOf(lruList) \ lruKeysOf(l)

\* the error of a flight reaches its leader only
sfDone_ErrorToLeaderOnly(c, value, exists, err) ==
    LET k == lruCallers[c].key IN
    /\ sfGroup' = [sfGroup EXCEPT ![k] = 0]
    /\ lruCallers' = [d \in LruCallers |->
          IF d = c \/ (lruCallers[d].pc = "wait" /\ lruCallers[d].flight = c)
          THEN [lruCallers[d] EXCEPT !.pc = "done",
                                     !.value = IF err THEN 0 ELSE value,
                                     !.exists = IF err THEN FALSE ELSE exists,
                                     !.err = err /\ d = c]
          ELSE lruCallers[d]]

\* sfGroup.Do ends for the leader c: the flight is forgotten and the leader
\* and every caller waiting on it get the same result; with an error
\* GetOrLoadWithTTL returns the zero value and exists = false
sfDone(c, value, exists, err) ==
    LET k == lruCallers[c].key IN
    /\ sfGroup' = [sfGroup EXCEPT ![k] = 0]
    /\ lruCallers' = [d \in LruCallers |->
          IF d = c \/ (lruCallers[d].pc = "wait" /\ lruCallers[d].flight = c)
          THEN [lruCallers[d] EXCEPT !.pc = "done",
                                     !.value = IF err THEN 0 ELSE value,
                                     !.exists = IF err THEN FALSE ELSE exists,
                                     !.err = err]
          ELSE lruCallers[d]]

\* GetOrLoadWithTTL begins: the first get
LruStart(c) ==
    /\ lruCallers[c].pc = "idle"
    /\ \A d \in LruCallers : d < c => lruCallers[d].pc # "idle"
    /\ \E k \in Keys :
        LET got == lruGet(lruList, k, lruNow) IN
        /\ lruList' = got.list
        /\ lruChanged' = lruChanged \cup lruDropped(got.list)
        /\ lruCallers' = [lruCallers EXCEPT ![c] =
              IF got.ok
              THEN [@ EXCEPT !.pc = "done", !.key = k, !.role = "hit",
                             !.value = got.value, !.exists = TRUE]
              ELSE [@ EXCEPT !.pc = "do", !.key = k, !.seen = Len(lruLoads[k])]]
    /\ UNCHANGED <<lruCfg, lruNow, sfGroup, lruLoads, lruOps>>
    /\ UNCHANGED nonLruVars

\* sfGroup.Do: join the flight of the key, or become its leader
LruEnterDo(c) ==
    /\ lruCallers[c].pc = "do"
    /\ IF sfGroup[lruCallers[c].key] # 0
       THEN /\ lruCallers' = [lruCallers EXCEPT ![c].pc = "wait", ![c].role = "waiter",
                                                ![c].flight = sfGroup[lruCallers[c].key]]
            /\ UNCHANGED sfGroup
       ELSE /\ lruCallers' = [lruCallers EXCEPT ![c].pc = "check", ![c].role = "leader"]
            /\ sfGroup' = [sfGroup EXCEPT ![lruCallers[c].key] = c]
    /\ UNCHANGED <<lruCfg, lruList, lruNow, lruLoads, lruChanged, lruOps>>
    /\ UNCHANGED nonLruVars

\* the leader's double check
LruDoubleCheck(c) ==
    /\ lruCallers[c].pc = "check"
    /\ LET got == lruGet(lruList, lruCallers[c].key, lruNow) IN
        /\ lruList' = got.list
        /\ lruChanged' = lruChanged \cup lruDropped(got.list)
        /\ IF got.ok
           THEN sfDone(c, got.value, TRUE, FALSE)
           ELSE /\ lruCallers' = [lruCallers EXCEPT ![c].pc = "load"]
                /\ UNCHANGED sfGroup
    /\ UNCHANGED <<lruCfg, lruNow, lruLoads, lruOps>>
    /\ UNCHANGED nonLruVars

\* the leader calls loadValue; the n-th invocation for a key produces value n
LruLoadValue(c) ==
    /\ lruCallers[c].pc = "load"
    /\ LET k == lruCallers[c].key
           v == Len(lruLoads[k]) + 1
       IN  \E valErr \in BOOLEAN, ttl \in LruTTLs :
             /\ lruLoads' = [lruLoads EXCEPT ![k] =
                               Append(@, [value |-> v, err |-> valErr])]
             /\ IF valErr
                THEN sfDone(c, v, FALSE, TRUE)
                ELSE /\ lruCallers' = [lruCallers EXCEPT ![c].pc = "add",
                                          ![c].value = v, ![c].ttl = ttl]
                     /\ UNCHANGED sfGroup
    /\ UNCHANGED <<lruCfg, lruList, lruNow, lruChanged, lruOps>>
    /\ UNCHANGED nonLruVars

\* the leader stores the loaded value and the flight ends
LruAddLoaded(c) ==
    /\ lruCallers[c].pc = "add"
    /\ LET ttl == IF lruCallers[c].ttl <= 0 THEN lruCfg.defaultTTL
                  ELSE lruCallers[c].ttl
           l == AddWithTTL(lruList, lruCfg.maxEntries, lruCallers[c].key,
                           lruCallers[c].value, ttl, lruNow)
       IN  /\ lruList' = l
           /\ lruChanged' = lruChanged \cup lruDropped(l)
    /\ sfDone(c, lruCallers[c].value, FALSE, FALSE)
    /\ UNCHANGED <<lruCfg, lruNow, lruLoads, lruOps>>
    /\ UNCHANGED nonLruVars

\* another caller adds a value (0) for a key
LruAdd ==
    /\ lruOps < MaxLruOps
    /\ \E k \in Keys, ttl \in LruTTLs :
        LET l == AddWithTTL(lruList, lruCfg.maxEntries, k, 0, ttl, lruNow) IN
        /\ lruList' = l
        /\ lruChanged' = lruChanged \cup lruDropped(l) \cup {k}
    /\ lruOps' = lruOps + 1
    /\ UNCHANGED <<lruCfg, lruNow, lruCallers, sfGroup, lruLoads>>
    /\ UNCHANGED nonLruVars

\* another caller removes a key
LruRemove ==
    /\ lruOps < MaxLruOps
    /\ \E k \in Keys :
        LET l == Remove(lruList, k) IN
        /\ lruList' = l
        /\ lruChanged' = lruChanged \cup lruDropped(l)
    /\ lruOps' = lruOps + 1
    /\ UNCHANGED <<lruCfg, lruNow, lruCallers, sfGroup, lruLoads>>
    /\ UNCHANGED nonLruVars

\* another caller reads a key
LruGet ==
    /\ lruOps < MaxLruOps
    /\ \E k \in Keys :
        LET got == lruGet(lruList, k, lruNow) IN
        /\ lruList' = got.list
        /\ lruChanged' = lruChanged \cup lruDropped(got.list)
    /\ lruOps' = lruOps + 1
    /\ UNCHANGED <<lruCfg, lruNow, lruCallers, sfGroup, lruLoads>>
    /\ UNCHANGED nonLruVars

LruTick ==
    /\ lruNow < 1 + MaxLruTime
    /\ lruNow' = lruNow + 1
    /\ UNCHANGED <<lruCfg, lruList, lruCallers, sfGroup, lruLoads, lruChanged, lruOps>>
    /\ UNCHANGED nonLruVars

InitLru ==
    /\ \E m \in 1..MaxLruEntries, d \in LruTTLs :
          lruCfg = [maxEntries |-> m, defaultTTL |-> d]
    /\ lruList = <<>>
    /\ lruNow = 1
    /\ lruCallers = [c \in LruCallers |-> NewLruCaller]
    /\ sfGroup = [k \in Keys |-> 0]
    /\ lruLoads = [k \in Keys |-> <<>>]
    /\ lruChanged = {}
    /\ lruOps = 0
    /\ RlIdle /\ LbIdle /\ SwIdle /\ IflIdle /\ CacheIdle /\ SrvIdle /\ IcIdle /\ TgIdle

NextLru ==
    \/ \E c \in LruCallers :
          \/ LruStart(c)
          \/ LruEnterDo(c)
          \/ LruDoubleCheck(c)
          \/ LruLoadValue(c)
          \/ LruAddLoaded(c)
    \/ LruAdd
    \/ LruRemove
    \/ LruGet
    \/ LruTick

SpecLru == InitLru /\ [][NextLru]_vars

LruDoneOn(k) == {c \in LruCallers : lruCallers[c].key = k /\ lruCallers[c].pc = "done"}

\* every caller that returned got what the first invocation produced
LruAllGotFirstLoad(k) ==
    \A c \in LruDoneOn(k) :
        /\ Len(lruLoads[k]) >= 1
        /\ lruCallers[c].err = lruLoads[k][1].err
        /\ ~lruCallers[c].err => lruCallers[c].value = lruLoads[k][1].value

LruNoLoadFailed(k) == \A i \in 1..Len(lruLoads[k]) : ~lruLoads[k][i].err

\* C10: for concurrent GetOrLoadWithTTL calls for a key that is absent and
\* is not removed, evicted, expired or added by anyone else, loadValue is
\* invoked once and every caller receives what that invocation produced.
C10_SingleFlightLoadsOnce ==
    \A k \in Keys \ lruChanged :
        /\ Len(lruLoads[k]) <= 1
        /\ LruAllGotFirstLoad(k)

\* C10 (amended): that holds as long as loadValue returns no error. After a
\* failed load nothing is stored, so a caller that missed on its first get
\* and reaches the single-flight group after the failed flight has ended
\* invokes loadValue again; in every case a caller receives the result of one
\* of the invocations, a waiter that of the flight it joined, and there are
\* no more invocations than callers.
C10_SingleFlightLoadsOnceAmended ==
    \A k \in Keys \ lruChanged :
        /\ LruNoLoadFailed(k) => (Len(lruLoads[k]) <= 1 /\ LruAllGotFirstLoad(k))
        /\ Len(lruLoads[k]) <=
              Cardinality({c \in LruCallers : lruCallers[c].key = k
                                              /\ lruCallers[c].role = "leader"})
        /\ \A c \in LruDoneOn(k) :
              \E i \in 1..Len(lruLoads[k]) :
                  /\ lruCallers[c].err = lruLoads[k][i].err
                  /\ ~lruCallers[c].err => lruCallers[c].value = lruLoads[k][i].value
        /\ \A c \in LruDoneOn(k) :
              (lruCallers[c].role = "waiter"
                 /\ lruCallers[lruCallers[c].flight].pc = "done")
                => /\ lruCallers[c].value = lruCallers[lruCallers[c].flight].value
                   /\ lruCallers[c].err = lruCallers[lruCallers[c].flight].err

\* the invocations of loadValue for key k that returned an error
LruFailedLoads(k) == {i \in 1..Len(lruLoads[k]) : lruLoads[k][i].err}

\* callers that got the result of the flight that caller c led
LruFlightOf(c) ==
    {c} \cup {d \in LruCallers : lruCallers[d].role = "waiter"
                                  /\ lruCallers[d].flight = c
                                  /\ lruCallers[d].key = lruCallers[c].key}

\* C31: when loadValue returns an error, the leader and every caller that
\* waited on its flight get the error (and exists = false); the step leaves
\* the cache as it was and no entry ever holds the value of a failed load;
\* a caller that starts after only failed loads of a key that nobody else
\* adds gets the result of a later invocation of loadValue.
C31_LoadErrorNotCached ==
    /\ [](\A k \in Keys :
            /\ \A c \in LruCallers :
                  (lruCallers[c].key = k /\ lruCallers[c].role = "leader"
                     /\ lruCallers[c].pc = "done" /\ lruCallers[c].err)
                    => \A d \in LruFlightOf(c) :
                          /\ lruCallers[d].pc = "done"
                          /\ lruCallers[d].err /\ ~lruCallers[d].exists
            /\ \A i \in LruFailedLoads(k) :
                  \A j \in 1..Len(lruList) :
                      ~(lruList[j].key = k /\ lruList[j].value = i)
            /\ \A c \in LruDoneOn(k) :
                  (k \notin lruChanged /\ lruCallers[c].seen >= 1
                     /\ 1..lruCallers[c].seen \subseteq LruFailedLoads(k))
                    => /\ Len(lruLoads[k]) > lruCallers[c].seen
                       /\ \E i \in (lruCallers[c].seen + 1)..Len(lruLoads[k]) :
                             /\ lruCallers[c].err = lruLoads[k][i].err
                             /\ ~lruCallers[c].err => lruCallers[c].value = i)
    /\ [][\A c \in LruCallers :
            (lruCallers[c].pc = "load" /\ lruCallers'[c].pc = "done")
                => (lruCallers'[c].err /\ lruList' = lruList)]_vars

\* a leader and the caller that waited on its flight both got the error
C31_Witness ==
    /\ lruCallers[1].pc = "done" /\ lruCallers[1].role = "leader" /\ lruCallers[1].err
    /\ lruCallers[2].pc = "done" /\ lruCallers[2].role = "waiter" /\ lruCallers[2].err
    /\ lruCallers[2].flight = 1 /\ lruCallers[1].key = "k1" /\ lruCallers[2].key = "k1"
    /\ LruFailedLoads("k1") = {1} /\ lruList = <<>>

\* C32: when loadValue returns a TTL of 0 or less, the entry that
\* GetOrLoadWithTTL stores never expires (expiresAt is the zero time),
\* whatever the default TTL of the cache.
C32_NonPositiveTTLNeverExpires ==
    [][\A c \in LruCallers :
          (lruCallers[c].pc = "add" /\ lruCallers'[c].pc = "done"
             /\ lruCallers[c].ttl <= 0)
            => /\ Len(lruList') >= 1
               /\ lruList'[1].key = lruCallers[c].key
               /\ lruList'[1].value = lruCallers[c].value
               /\ lruList'[1].expiresAt = 0]_vars

C10_Witness ==
    /\ "k1" \notin lruChanged
    /\ \A c \in LruCallers : lruCallers[c].pc = "done" /\ lruCallers[c].key = "k1"
    /\ \E c, d \in LruCallers :
          /\ lruCallers[c].role = "waiter"
          /\ lruCallers[d].role = "leader" /\ lruCallers[c].flight = d
    /\ Len(lruLoads["k1"]) = 1
    /\ LruNoLoadFailed("k1")
    /\ LruAllGotFirstLoad("k1")

(***************************************************************************)
(* LRU cache: every operation of the cache, each one atomic under the      *)
(* cache lock; GetOrLoadWithTTL takes the lock for its first get, for its  *)
(* double check and for AddWithTTL, and other operations run in between.   *)
(***************************************************************************)
\* addNew: AddEvictions(1) when the push overflows the cache
addNewEvictions(l, maxEntries) == IF Len(l) + 1 <= maxEntries THEN 0 ELSE 1

\* AddWithTTL: evictions reported
AddWithTTLEvictions(l, maxEntries, k) ==
    IF lruIndex(l, k) # 0 THEN 0 ELSE addNewEvictions(l, maxEntries)

\* Purge: c.cache = make(map), c.lruList.Init()
Purge(l) == <<>>

\* size entries are evicted instead of the excess over size
ResizeEvicted_Size(l, size) == IF size <= 0 \/ size >= Len(l) THEN 0 ELSE size

\* Resize: evicted = len(c.cache) - size
ResizeEvicted(l, size) == IF size <= 0 THEN 0 ELSE Max(Len(l) - size, 0)

\* Resize: removeOldest, evicted times
Resize(l, size) == SubSeq(l, 1, Len(l) - ResizeEvicted(l, size))

\* RunPeriodicCleanup, one tick: entries that expired before now are removed
Cleanup(l, now) ==
    SelectSeq(l, LAMBDA e : ~(e.expiresAt # 0 /\ e.expiresAt < now))

\* get: SetAmount(len(c.cache)) when the entry has expired and is removed
getAmount(l, k, now, amount) ==
    LET got == lruGet(l, k, now) IN
    IF Len(got.list) < Len(l) THEN Len(got.list) ELSE amount

\* SetAmount right after the push, before the overflow is looked at
addNewAmount_AfterPush(l, maxEntries, amount) == Len(l) + 1

\* addNew: SetAmount(len(c.cache)) unless the push overflows the cache
addNewAmount(l, maxEntries, amount) ==
    IF Len(l) + 1 <= maxEntries THEN Len(l) + 1 ELSE amount

\* AddWithTTL: an entry updated in place reports nothing
AddWithTTLAmount(l, maxEntries, k, amount) ==
    IF lruIndex(l, k) # 0 THEN amount ELSE addNewAmount(l, maxEntries, amount)

\* Resize: SetAmount(len(c.cache)) once entries have been evicted
ResizeAmount(l, size, amount) ==
    IF ResizeEvicted(l, size) > 0 THEN Len(Resize(l, size)) ELSE amount

\* the stored key whose last use is the earliest
cacheOldest(l) ==
    IF Len(l) = 0 THEN ""
    ELSE CHOOSE k \in lruKeysOf(l) : \A j \in lruKeysOf(l) : lruUse[k] <= lruUse[j]

\* an operation on key k ends: the list becomes l, ok is what it returned,
\* now the time that Get read,
\* ev the evictions it reported, used whether it counts as a use of k,
\* amount the last value it or an earlier operation gave to SetAmount
cacheDone(op, k, l, ok, ev, size, used, amount) ==
    /\ lruList' = l
    /\ lruAmount' = amount
    /\ lruEvictions' = lruEvictions + ev
    /\ lruOps' = lruOps + 1
    /\ lruUse' = IF used THEN [lruUse EXCEPT ![k] = lruOps + 1] ELSE lruUse
    /\ lruLast' = [op |-> op, key |-> k,
                   found |-> lruIndex(lruList, k) # 0,
                   expiresAt |-> IF lruIndex(lruList, k) # 0
                                 THEN lruList[lruIndex(lruList, k)].expiresAt ELSE 0,
                   ok |-> ok,
                   dropped |-> lruDropped(l),
                   wasFull |-> Len(lruList) >= lruCfg.maxEntries,
                   oldest |-> cacheOldest(lruList),
                   evicted |-> ev,
                   size |-> size,
                   now |-> IF op = "Get" THEN lruNow ELSE 0]

\* keys never added and not being loaded are interchangeable: of those only
\* the first is used
cacheKeyOrder == <<"k1", "k2", "k3">>
cacheKeyInTurn(k) ==
    \A i, j \in 1..Len(cacheKeyOrder) :
        (cacheKeyOrder[j] = k /\ i < j)
            => (lruUse[cacheKeyOrder[i]] # 0 \/ lruPending.key = cacheKeyOrder[i])

cacheFrame == UNCHANGED <<lruCallers, sfGroup, lruLoads, lruChanged>> /\ UNCHANGED nonCacheVars

CacheGet(k) ==
    /\ lruOps < MaxCacheOps
    /\ cacheKeyInTurn(k)
    /\ LET got == lruGet(lruList, k, lruNow) IN
          cacheDone("Get", k, got.list, got.ok, 0, 0, got.ok,
                    getAmount(lruList, k, lruNow, lruAmount))
    /\ UNCHANGED <<lruCfg, lruNow, lruPending>>
    /\ cacheFrame

CacheAddWithTTL(k, ttl) ==
    /\ lruOps < MaxCacheOps
    /\ cacheKeyInTurn(k)
    /\ cacheDone("Add", k, AddWithTTL(lruList, lruCfg.maxEntries, k, 0, ttl, lruNow), TRUE,
                 AddWithTTLEvictions(lruList, lruCfg.maxEntries, k), 0, TRUE,
                 AddWithTTLAmount(lruList, lruCfg.maxEntries, k, lruAmount))
    /\ UNCHANGED <<lruCfg, lruNow, lruPending>>
    /\ cacheFrame

CacheGetOrAddWithTTL(k, ttl) ==
    /\ lruOps < MaxCacheOps
    /\ cacheKeyInTurn(k)
    /\ LET got == lruGet(lruList, k, lruNow)
           res == GetOrAddWithTTL(lruList, lruCfg.maxEntries, k, 0, ttl, lruNow)
       IN  cacheDone("GetOrAdd", k, res.list, res.exists,
                     IF got.ok THEN 0 ELSE addNewEvictions(got.list, lruCfg.maxEntries),
                     0, TRUE,
                     IF got.ok THEN lruAmount
                     ELSE addNewAmount(got.list, lruCfg.maxEntries,
                                       getAmount(lruList, k, lruNow, lruAmount)))
    /\ UNCHANGED <<lruCfg, lruNow, lruPending>>
    /\ cacheFrame

\* GetOrLoadWithTTL: the first get
CacheGetOrLoadStart(k) ==
    /\ lruOps < MaxCacheOps
    /\ cacheKeyInTurn(k)
    /\ lruPending.pc = "none"
    /\ LET got == lruGet(lruList, k, lruNow) IN
        /\ cacheDone("GetOrLoadGet", k, got.list, got.ok, 0, 0, got.ok,
                     getAmount(lruList, k, lruNow, lruAmount))
        /\ lruPending' = IF got.ok THEN NoPending ELSE [pc |-> "check", key |-> k]
    /\ UNCHANGED <<lruCfg, lruNow>>
    /\ cacheFrame

\* GetOrLoadWithTTL: the double check inside sfGroup.Do
CacheGetOrLoadCheck ==
    /\ lruPending.pc = "check"
    /\ LET got == lruGet(lruList, lruPending.key, lruNow) IN
        /\ cacheDone("GetOrLoadGet", lruPending.key, got.list, got.ok, 0, 0, got.ok,
                     getAmount(lruList, lruPending.key, lruNow, lruAmount))
        /\ lruPending' = IF got.ok THEN NoPending ELSE [lruPending EXCEPT !.pc = "load"]
    /\ UNCHANGED <<lruCfg, lruNow>>
    /\ cacheFrame

\* GetOrLoadWithTTL: loadValue returns; without an error the value is added
CacheGetOrLoadFinish ==
    /\ lruPending.pc = "load"
    /\ \E valErr \in BOOLEAN, ttl0 \in LruTTLs :
        LET k == lruPending.key
            ttl == IF ttl0 <= 0 THEN lruCfg.defaultTTL ELSE ttl0
        IN  IF valErr
            THEN cacheDone("GetOrLoadErr", k, lruList, FALSE, 0, 0, FALSE, lruAmount)
            ELSE cacheDone("GetOrLoadAdd", k,
                           AddWithTTL(lruList, lruCfg.maxEntries, k, 0, ttl, lruNow), TRUE,
                           AddWithTTLEvictions(lruList, lruCfg.maxEntries, k), 0, TRUE,
                           AddWithTTLAmount(lruList, lruCfg.maxEntries, k, lruAmount))
    /\ lruPending' = NoPending
    /\ UNCHANGED <<lruCfg, lruNow>>
    /\ cacheFrame

CacheRemove(k) ==
    /\ lruOps < MaxCacheOps
    /\ cacheKeyInTurn(k)
    /\ cacheDone("Remove", k, Remove(lruList, k), lruIndex(lruList, k) # 0, 0, 0, FALSE,
                 IF lruIndex(lruList, k) # 0 THEN Len(Remove(lruList, k)) ELSE lruAmount)
    /\ UNCHANGED <<lruCfg, lruNow, lruPending>>
    /\ cacheFrame

CachePurge ==
    /\ lruOps < MaxCacheOps
    /\ cacheDone("Purge", "", Purge(lruList), TRUE, 0, 0, FALSE, 0)
    /\ UNCHANGED <<lruCfg, lruNow, lruPending>>
    /\ cacheFrame

CacheResize(size) ==
    /\ lruOps < MaxCacheOps
    /\ cacheDone("Resize", "", Resize(lruList, size), TRUE,
                 ResizeEvicted(lruList, size), size, FALSE,
                 ResizeAmount(lruList, size, lruAmount))
    /\ lruCfg' = IF size <= 0 THEN lruCfg ELSE [lruCfg EXCEPT !.maxEntries = size]
    /\ UNCHANGED <<lruNow, lruPending>>
    /\ cacheFrame

CacheCleanup ==
    /\ lruOps < MaxCacheOps
    /\ cacheDone("Cleanup", "", Cleanup(lruList, lruNow), TRUE, 0, 0, FALSE,
                 Len(Cleanup(lruList, lruNow)))
    /\ UNCHANGED <<lruCfg, lruNow, lruPending>>
    /\ cacheFrame

CacheTick ==
    /\ lruNow < 1 + MaxLruTime
    /\ lruNow' = lruNow + 1
    /\ UNCHANGED <<lruCfg, lruList, lruOps, lruLast, lruEvictions, lruUse, lruPending,
                   lruAmount>>
    /\ cacheFrame

InitCache ==
    /\ \E m \in 1..MaxCacheEntries, d \in LruTTLs :
          lruCfg = [maxEntries |-> m, defaultTTL |-> d]
    /\ lruList = <<>>
    /\ lruNow = 1
    /\ lruCallers = [c \in LruCallers |-> NewLruCaller]
    /\ sfGroup = [k \in Keys |-> 0]
    /\ lruLoads = [k \in Keys |-> <<>>]
    /\ lruChanged = {}
    /\ lruOps = 0
    /\ CacheIdle
    /\ RlIdle /\ LbIdle /\ SwIdle /\ IflIdle /\ SrvIdle /\ IcIdle /\ TgIdle

NextCache ==
    \/ \E k \in CacheKeys : CacheGet(k)
    \/ \E k \in CacheKeys, ttl \in LruTTLs : CacheAddWithTTL(k, ttl)
    \/ \E k \in CacheKeys, ttl \in LruTTLs : CacheGetOrAddWithTTL(k, ttl)
    \/ \E k \in CacheKeys : CacheGetOrLoadStart(k)
    \/ CacheGetOrLoadCheck
    \/ CacheGetOrLoadFinish
    \/ \E k \in CacheKeys : CacheRemove(k)
    \/ CachePurge
    \/ \E size \in 0..MaxCacheEntries : CacheResize(size)
    \/ CacheCleanup
    \/ CacheTick

SpecCache == InitCache /\ [][NextCache]_vars

\* C40: after every completed operation that changes the number of entries
\* (an insert, Remove, Purge, Resize, the expiry of an entry on access, the
\* periodic cleanup) the last value given to SetAmount is Len(); an insert
\* that evicts reports nothing and leaves the two equal. Before the first
\* entry is stored nothing need have been reported.
C40_AmountIsLen ==
    /\ [](IF lruAmount = -1
          THEN Len(lruList) = 0 /\ \A k \in CacheKeys : lruUse[k] = 0
          ELSE lruAmount = Len(lruList))
    /\ [][Len(lruList') # Len(lruList) => lruAmount' = Len(lruList')]_vars
    /\ [][(lruOps' # lruOps /\ lruLast'.evicted > 0)
             => lruAmount' = Len(lruList')]_vars

\* an insert into a full cache of two entries evicted the oldest one
C40_Witness ==
    /\ lruLast.op \in {"Add", "GetOrAdd"} /\ lruLast.evicted = 1
    /\ lruLast.dropped # {} /\ lruLast.wasFull
    /\ Len(lruList) = 2 /\ lruAmount = 2

\* C11: after every completed operation the number of stored entries is at
\* most the current capacity: maxEntries of the constructor, or the size of
\* the last Resize with a positive size.
C11_LenWithinCapacity ==
    /\ Len(lruList) <= lruCfg.maxEntries
    /\ Cardinality(lruKeysOf(lruList)) = Len(lruList)
    /\ (lruLast.op = "Resize" /\ lruLast.size > 0) => lruCfg.maxEntries = lruLast.size

C11_Witness ==
    /\ lruLast.op = "Resize" /\ lruLast.size > 0
    /\ lruLast.evicted > 0
    /\ Len(lruList) = lruCfg.maxEntries

\* the last operation put a key that was not stored into a full cache
CacheInsertedIntoFull ==
    /\ lruLast.op \in {"Add", "GetOrAdd", "GetOrLoadAdd"}
    /\ ~lruLast.found
    /\ lruLast.wasFull

\* C12: inserting a new key into a full cache evicts exactly one entry, the
\* one least recently used (by an Add of its key or a hit of Get, GetOrAdd or
\* GetOrLoad); the eviction counter grows by 1 and the new key stays.
C12_EvictsLeastRecentlyUsed ==
    CacheInsertedIntoFull
        => /\ lruLast.dropped = {lruLast.oldest}
           /\ lruLast.evicted = 1
           /\ lruLast.key \in lruKeysOf(lruList)
           /\ lruLast.key # lruLast.oldest
           /\ lruList[1].key = lruLast.key
           /\ Len(lruList) = lruCfg.maxEntries

C12_Witness ==
    /\ CacheInsertedIntoFull
    /\ lruCfg.maxEntries = 2
    /\ lruLast.key = "k3"
    /\ lruLast.dropped = {"k2"}
    /\ lruUse["k2"] > 1
    /\ lruKeysOf(lruList) = {"k1", "k3"}

\* the number of entries before the last operation
CacheLenBefore == Len(lruList) + Cardinality(lruLast.dropped)

\* the last operation was Resize(n) with 0 < n < Len()
CacheShrunk ==
    lruLast.op = "Resize" /\ 0 < lruLast.size /\ lruLast.size < CacheLenBefore

\* the entries the last operation dropped were used less recently than
\* every entry that stayed
CacheDroppedOldest ==
    \A d \in lruLast.dropped : \A r \in lruKeysOf(lruList) : lruUse[d] < lruUse[r]

\* C33 as claimed: Resize(n) with 0 < n < Len() evicts the n least recently
\* used entries and adds the size delta to the eviction counter; with
\* n >= Len() it evicts nothing.
C33_ResizeEvictsN ==
    /\ CacheShrunk =>
          /\ Cardinality(lruLast.dropped) = lruLast.size
          /\ CacheDroppedOldest
          /\ lruLast.evicted = CacheLenBefore - lruLast.size
    /\ (lruLast.op = "Resize" /\ lruLast.size >= CacheLenBefore) =>
          (lruLast.dropped = {} /\ lruLast.evicted = 0)

\* C33: Resize(n) with 0 < n < Len() evicts the Len() - n least recently
\* used entries, so that n stay, and adds Len() - n to the eviction counter;
\* with n >= Len() it evicts nothing and reports no eviction.
C33_ResizeEvictsExcess ==
    /\ CacheShrunk =>
          /\ Cardinality(lruLast.dropped) = CacheLenBefore - lruLast.size
          /\ Len(lruList) = lruLast.size
          /\ CacheDroppedOldest
          /\ lruLast.evicted = CacheLenBefore - lruLast.size
    /\ (lruLast.op = "Resize" /\ lruLast.size >= CacheLenBefore) =>
          (lruLast.dropped = {} /\ lruLast.evicted = 0)

\* three entries resized to one: two are evicted
C33_Witness ==
    /\ CacheShrunk
    /\ lruLast.size = 1 /\ CacheLenBefore = 3
    /\ Len(lruList) = 1 /\ lruLast.evicted = 2

\* the last operation was a Get of a key that was stored
CacheGotStored == lruLast.op = "Get" /\ lruLast.found

\* C13: for a stored key Get reports a hit exactly when the entry has no
\* expiry or its expiresAt is strictly later than the current time;
\* otherwise it removes the entry and reports a miss.
C13_GetHitsUnlessExpired ==
    CacheGotStored
        => /\ lruLast.ok <=> (lruLast.expiresAt = 0 \/ lruLast.expiresAt > lruLast.now)
           /\ ~lruLast.ok => lruLast.dropped = {lruLast.key}

\* C13 as amended: the hit is reported exactly when the entry has no expiry
\* or its expiresAt is not earlier than the current time: a Get at the very
\* instant expiresAt still hits. A hit leaves every entry in place and makes
\* the entry the most recently used; a miss removes the entry.
C13_GetHitsUnlessExpiredAmended ==
    CacheGotStored
        => /\ lruLast.ok <=> (lruLast.expiresAt = 0 \/ lruLast.expiresAt >= lruLast.now)
           /\ ~lruLast.ok => lruLast.dropped = {lruLast.key}
           /\ lruLast.ok => (lruLast.dropped = {} /\ lruList[1].key = lruLast.key)
           /\ lruLast.evicted = 0

C13_Witness ==
    /\ CacheGotStored
    /\ lruLast.expiresAt = lruLast.now
    /\ lruLast.ok
    /\ lruLast.key \in lruKeysOf(lruList)

(***************************************************************************)
(* gRPC server: New, one Start and one Stop.                               *)
(***************************************************************************)
BuiltinInterceptors == <<"start-time", "request-id", "logging", "recovery", "metrics">>

UserNames == <<"user-1", "user-2", "user-3">>

UserInterceptors == {SubSeq(UserNames, 1, n) : n \in 0..MaxUserInterceptors}

\* New: the unary chain is installed when it is not empty
unaryChain(userUnary) ==
    LET unaryInterceptors == BuiltinInterceptors \o userUnary IN
    IF Len(unaryInterceptors) > 0 THEN unaryInterceptors ELSE <<>>

\* New: the stream chain is installed when len(opts.streamInterceptors) > 0
streamChain(userStream) ==
    LET streamInterceptors == BuiltinInterceptors \o userStream IN
    IF Len(userStream) > 0 THEN streamInterceptors ELSE <<>>

\* grpc.Server.Stop: no more serving, outstanding calls are cut
grpcStop(g) == [g EXCEPT !.quit = TRUE, !.done = TRUE, !.outstanding = 0]

OnShutdownTimeout_NoStop(g) == g

\* Stop: case <-ctx.Done(): s.GRPCServer.Stop()
OnShutdownTimeout(g) == grpcStop(g)

srvFrame == UNCHANGED <<srvOpts, srvChains>> /\ UNCHANGED nonSrvVars

\* Start: s.grpcServerDone = make(chan struct{})
StartBegin ==
    /\ start.pc = "init"
    /\ srvDone' = "open"
    /\ start' = [start EXCEPT !.pc = "listen"]
    /\ UNCHANGED <<grpc, stop, gs, fatalError>>
    /\ srvFrame

\* Start: os.Remove / net.Listen; on an error it is sent to fatalError and
\* Start returns (the deferred close runs)
StartListen ==
    /\ start.pc = "listen"
    /\ \E ok \in BOOLEAN :
        IF ok
        THEN /\ start' = [start EXCEPT !.pc = "serve"]
             /\ UNCHANGED <<srvDone, fatalError>>
        ELSE /\ start' = [start EXCEPT !.pc = "done"]
             /\ fatalError' = Append(fatalError, "listen")
             /\ srvDone' = "closed"
    /\ UNCHANGED <<grpc, stop, gs>>
    /\ srvFrame

\* Start: Serve on a server already stopped returns an error at once
StartServe ==
    /\ start.pc = "serve"
    /\ IF grpc.quit
       THEN /\ start' = [start EXCEPT !.pc = "done", !.served = TRUE]
            /\ fatalError' = Append(fatalError, "serve")
            /\ srvDone' = "closed"
            /\ UNCHANGED grpc
       ELSE /\ start' = [start EXCEPT !.pc = "serving", !.served = TRUE]
            /\ grpc' = [grpc EXCEPT !.serving = TRUE]
            /\ UNCHANGED <<srvDone, fatalError>>
    /\ UNCHANGED <<stop, gs>>
    /\ srvFrame

\* Start: Serve returns nil once Stop or GracefulStop has completed
StartServeReturns ==
    /\ start.pc = "serving"
    /\ grpc.done
    /\ start' = [start EXCEPT !.pc = "done"]
    /\ grpc' = [grpc EXCEPT !.serving = FALSE]
    /\ srvDone' = "closed"
    /\ UNCHANGED <<stop, gs, fatalError>>
    /\ srvFrame

\* a call arrives at the serving server
CallArrives ==
    /\ grpc.serving /\ ~grpc.quit
    /\ grpc.outstanding < MaxOutstanding
    /\ grpc' = [grpc EXCEPT !.outstanding = @ + 1]
    /\ UNCHANGED <<srvDone, start, stop, gs, fatalError>>
    /\ srvFrame

\* a call finishes on its own
CallFinishes ==
    /\ srvOpts.callsFinish
    /\ grpc.outstanding > 0
    /\ grpc' = [grpc EXCEPT !.outstanding = @ - 1]
    /\ UNCHANGED <<srvDone, start, stop, gs, fatalError>>
    /\ srvFrame

\* Stop(gracefully) is called
StopBegin ==
    /\ stop.pc = "idle"
    /\ \E gracefully \in BOOLEAN :
        IF gracefully
        THEN /\ stop' = [stop EXCEPT !.pc = "select", !.gracefully = TRUE]
             /\ gs' = [gs EXCEPT !.pc = "begin"]
        ELSE /\ stop' = [stop EXCEPT !.pc = "hardStop"]
             /\ UNCHANGED gs
    /\ UNCHANGED <<grpc, srvDone, start, fatalError>>
    /\ srvFrame

\* Stop(false): s.GRPCServer.Stop()
StopHard ==
    /\ stop.pc = "hardStop"
    /\ grpc' = grpcStop(grpc)
    /\ stop' = [stop EXCEPT !.pc = "readDone", !.synced = start.served,
                             !.forced = TRUE, !.cancelled = grpc.outstanding]
    /\ UNCHANGED <<srvDone, start, gs, fatalError>>
    /\ srvFrame

\* GracefulStop: no new calls are accepted
GracefulStopBegins ==
    /\ gs.pc = "begin"
    /\ grpc' = [grpc EXCEPT !.quit = TRUE]
    /\ gs' = [gs EXCEPT !.pc = "drain"]
    /\ UNCHANGED <<srvDone, start, stop, fatalError>>
    /\ srvFrame

\* GracefulStop returns when no call is outstanding; close(done)
GracefulStopReturns ==
    /\ gs.pc = "drain"
    /\ grpc.outstanding = 0
    /\ grpc' = [grpc EXCEPT !.done = TRUE]
    /\ gs' = [gs EXCEPT !.pc = "done", !.synced = start.served]
    /\ UNCHANGED <<srvDone, start, stop, fatalError>>
    /\ srvFrame

\* the shutdown timeout expires
ShutdownTimeout ==
    /\ stop.pc = "select"
    /\ ~stop.timedOut
    /\ stop' = [stop EXCEPT !.timedOut = TRUE]
    /\ UNCHANGED <<grpc, srvDone, start, gs, fatalError>>
    /\ srvFrame

\* Stop(true): case <-done
StopSelectDone ==
    /\ stop.pc = "select"
    /\ gs.pc = "done"
    /\ stop' = [stop EXCEPT !.pc = "readDone", !.synced = gs.synced]
    /\ UNCHANGED <<grpc, srvDone, start, gs, fatalError>>
    /\ srvFrame

\* Stop(true): case <-ctx.Done()
StopSelectTimeout ==
    /\ stop.pc = "select"
    /\ stop.timedOut
    /\ grpc' = OnShutdownTimeout(grpc)
    /\ stop' = [stop EXCEPT !.pc = "readDone", !.synced = start.served,
                             !.forced = TRUE, !.cancelled = grpc.outstanding]
    /\ UNCHANGED <<srvDone, start, gs, fatalError>>
    /\ srvFrame

\* Stop: if s.grpcServerDone != nil. Start writes the field and Stop reads it
\* with nothing ordering the two unless Start had entered Serve before the
\* server was stopped; unordered, the read gives the old or the new value.
StopReadsDone ==
    /\ stop.pc = "readDone"
    /\ \E saw \in {"nil", "chan"} :
        /\ saw = "chan" => srvDone # "nil"
        /\ saw = "nil" => (srvDone = "nil" \/ ~stop.synced)
        /\ stop' = [stop EXCEPT !.saw = saw,
                                 !.pc = IF saw = "nil" THEN "returned" ELSE "wait"]
    /\ UNCHANGED <<grpc, srvDone, start, gs, fatalError>>
    /\ srvFrame

\* Stop: <-s.grpcServerDone
StopWaitEnds ==
    /\ stop.pc = "wait"
    /\ srvDone = "closed"
    /\ stop' = [stop EXCEPT !.pc = "returned"]
    /\ UNCHANGED <<grpc, srvDone, start, gs, fatalError>>
    /\ srvFrame

InitSrv ==
    /\ \E u \in UserInterceptors, st \in UserInterceptors, f \in BOOLEAN :
        /\ srvOpts = [unary |-> u, stream |-> st, callsFinish |-> f]
        /\ srvChains = [unary |-> unaryChain(u), stream |-> streamChain(st)]
    /\ grpc = NewGrpc
    /\ srvDone = "nil"
    /\ start = NewStart
    /\ stop = NewStop
    /\ gs = NewGs
    /\ fatalError = <<>>
    /\ RlIdle /\ LbIdle /\ SwIdle /\ IflIdle /\ LruIdle /\ CacheIdle /\ IcIdle /\ TgIdle

NextSrv ==
    \/ StartBegin
    \/ StartListen
    \/ StartServe
    \/ StartServeReturns
    \/ CallArrives
    \/ CallFinishes
    \/ StopBegin
    \/ StopHard
    \/ GracefulStopBegins
    \/ GracefulStopReturns
    \/ ShutdownTimeout
    \/ StopSelectDone
    \/ StopSelectTimeout
    \/ StopReadsDone
    \/ StopWaitEnds

SpecSrv == InitSrv /\ [][NextSrv]_vars

\* every goroutine that can take a step takes it in the end, and the
\* shutdown timeout expires; calls need not arrive or finish
SpecSrvLive ==
    /\ SpecSrv
    /\ WF_vars(StartBegin) /\ WF_vars(StartListen) /\ WF_vars(StartServe)
    /\ WF_vars(StartServeReturns)
    /\ WF_vars(StopHard) /\ WF_vars(GracefulStopBegins) /\ WF_vars(GracefulStopReturns)
    /\ WF_vars(ShutdownTimeout) /\ WF_vars(StopSelectDone \/ StopSelectTimeout)
    /\ WF_vars(StopReadsDone) /\ WF_vars(StopWaitEnds)

\* C14: Stop, graceful or forceful, returns only after the goroutine running
\* Start has returned, in every interleaving of one Start and one Stop.
C14_StopReturnsAfterStart ==
    stop.pc = "returned" => start.pc = "done"

C16_InterceptorOrder ==
    /\ srvChains.unary = BuiltinInterceptors \o srvOpts.unary
    /\ srvChains.stream = BuiltinInterceptors \o srvOpts.stream

(***************************************************************************)
(* Logging, recovery and metrics interceptors around a handler             *)
(***************************************************************************)

IcExcluded == <<"/", "s", "/", "a">>

IcPanicValues == {"test"}

\* isLoggingDisabled: the full method name is one of the excluded names
isLoggingDisabled(fullMethod, excludedMethods) == fullMethod \in excludedMethods

\* logCallCompletion with the completion logged for non-excluded methods only
logCallCompletion_OnlyIfNotExcluded(c, logger, err, fullMethod) ==
    IF ~isLoggingDisabled(fullMethod, icOpts.excludedMethods)
    THEN <<[msg |-> <<"gRPC call finished">>, call |-> c, code |-> err, fields |-> logger]>>
    ELSE <<>>

\* logCallCompletion: the entries it appends to the log
logCallCompletion(c, logger, err, fullMethod) ==
    LET grpcCode == err
        noLog == isLoggingDisabled(fullMethod, icOpts.excludedMethods)
    IN  IF ~noLog \/ grpcCode # "OK"
        THEN <<[msg |-> <<"gRPC call finished">>, call |-> c, code |-> grpcCode, fields |-> logger]>>
        ELSE <<>>

\* the deferred function of the recovery interceptor, logging nothing
recovered_Silent(c, call) == [log |-> <<>>, err |-> "Internal"]

\* the deferred function of the recovery interceptor, without the logger check
recovered_AlwaysLogs(c, call) ==
    [log |-> <<[msg |-> <<"Panic: ", call.panicValue>>, call |-> c,
                code |-> "Internal", fields |-> {}]>>,
     err |-> "Internal"]

\* the deferred function of the recovery interceptor for a panicking call:
\* the entry it logs, if any, and the error it returns
recovered(c, call) ==
    [log |-> IF call.ctxLogger
             THEN <<[msg |-> <<"Panic: ", call.panicValue>>, call |-> c,
                     code |-> "Internal", fields |-> {}]>>
             ELSE <<>>,
     err |-> "Internal"]

\* the in-flight gauge after the metrics interceptor is left, the decrement
\* not deferred: a panic skips it
InFlightDec_NotDeferred(inFlight, label, panicking) ==
    IF panicking THEN inFlight ELSE [inFlight EXCEPT ![label] = @ - 1]

\* the in-flight gauge after the metrics interceptor is left
InFlightDec(inFlight, label, panicking) ==
    [inFlight EXCEPT ![label] = @ - 1]

icFrame == UNCHANGED <<ridCalls, ridMinted, nonIcVars>>

\* the logging interceptor up to its call of the next handler
IcLoggingBefore(c, m) ==
    /\ icCalls[c].pc = "new"
    /\ IF icOpts.logging
       THEN LET logger == icLogger \cup {c}
                noLog == isLoggingDisabled(m, icOpts.excludedMethods)
            IN  /\ icLogger' = logger
                /\ icLog' = IF icOpts.callStart /\ ~noLog
                            THEN Append(icLog, [msg |-> <<"gRPC call started">>, call |-> c,
                                                code |-> "none", fields |-> logger])
                            ELSE icLog
                /\ icCalls' = [icCalls EXCEPT ![c].pc = "metrics", ![c].method = m,
                                              ![c].ctxLogger = TRUE]
       ELSE /\ icCalls' = [icCalls EXCEPT ![c].pc = "metrics", ![c].method = m]
            /\ UNCHANGED <<icLog, icLogger>>
    /\ UNCHANGED <<icOpts, icInFlight>>
    /\ icFrame

\* the metrics interceptor up to its call of the handler
IcMetricsBefore(c) ==
    /\ icCalls[c].pc = "metrics"
    /\ icInFlight' = [icInFlight EXCEPT ![splitFullMethodName(icCalls[c].method)] = @ + 1]
    /\ icCalls' = [icCalls EXCEPT ![c].pc = "handler", ![c].inside = TRUE]
    /\ UNCHANGED <<icOpts, icLog, icLogger>>
    /\ icFrame

\* the handler returns a response, returns an error or panics
IcHandler(c) ==
    /\ icCalls[c].pc = "handler"
    /\ \/ \E err \in {"OK", "NotFound"} :
            icCalls' = [icCalls EXCEPT ![c].pc = "metricsOut", ![c].err = err,
                                          ![c].handlerCalls = @ + 1]
       \/ \E p \in IcPanicValues :
            icCalls' = [icCalls EXCEPT ![c].pc = "metricsOut", ![c].panicking = TRUE,
                                          ![c].panicValue = p,
                                          ![c].handlerCalls = @ + 1]
    /\ UNCHANGED <<icOpts, icInFlight, icLog, icLogger>>
    /\ icFrame

\* the metrics interceptor after the handler: the duration is observed
\* unless the handler panicked, and the deferred decrement runs
IcMetricsAfter(c) ==
    LET call == icCalls[c] IN
    /\ call.pc = "metricsOut"
    /\ icInFlight' = InFlightDec(icInFlight, splitFullMethodName(call.method),
                                 call.panicking)
    /\ icCalls' = [icCalls EXCEPT ![c].pc = "recoveryOut", ![c].inside = FALSE,
                                  ![c].observed = IF call.panicking THEN "none"
                                                  ELSE call.err]
    /\ UNCHANGED <<icOpts, icLog, icLogger>>
    /\ icFrame

\* the recovery interceptor after the handler, if it is in the chain
IcRecoveryAfter(c) ==
    LET call == icCalls[c] IN
    /\ call.pc = "recoveryOut"
    /\ IF icOpts.recovery /\ call.panicking
       THEN /\ icLog' = icLog \o recovered(c, call).log
            /\ icCalls' = [icCalls EXCEPT ![c].pc = "loggingOut",
                                          ![c].panicking = FALSE,
                                          ![c].err = recovered(c, call).err]
       ELSE /\ icCalls' = [icCalls EXCEPT ![c].pc = "loggingOut"]
            /\ UNCHANGED icLog
    /\ UNCHANGED <<icOpts, icInFlight, icLogger>>
    /\ icFrame

\* the logging interceptor after the handler; a panic passes through it
\* without a completion entry
IcLoggingAfter(c) ==
    LET call == icCalls[c] IN
    /\ call.pc = "loggingOut"
    /\ IF call.panicking
       THEN /\ icCalls' = [icCalls EXCEPT ![c].pc = "panicked"]
            /\ UNCHANGED icLog
       ELSE /\ icCalls' = [icCalls EXCEPT ![c].pc = "done"]
            /\ icLog' = IF icOpts.logging
                        THEN icLog \o logCallCompletion(c, icLogger, call.err, call.method)
                        ELSE icLog
    /\ UNCHANGED <<icOpts, icInFlight, icLogger>>
    /\ icFrame

InitIc ==
    /\ icOpts \in [logging : BOOLEAN, recovery : BOOLEAN, callStart : BOOLEAN,
                   excludedMethods : {{}, {IcExcluded}}]
    /\ icCalls = [c \in IcCalls |-> NewIcCall]
    /\ icInFlight = [l \in IcLabels |-> 0]
    /\ icLog = <<>>
    /\ icLogger = {}
    /\ ridCalls = [c \in RidCalls |-> NewRidCall]
    /\ ridMinted = 0
    /\ RlIdle /\ LbIdle /\ SwIdle /\ IflIdle /\ LruIdle /\ CacheIdle /\ SrvIdle /\ TgIdle

NextIc ==
    \E c \in IcCalls :
        \/ \E m \in IcMethods : IcLoggingBefore(c, m)
        \/ IcMetricsBefore(c)
        \/ IcHandler(c)
        \/ IcMetricsAfter(c)
        \/ IcRecoveryAfter(c)
        \/ IcLoggingAfter(c)

SpecIc == InitIc /\ [][NextIc]_vars

\* the entries with message msg that call c wrote
IcEntries(c, msg) == {i \in 1..Len(icLog) : icLog[i].call = c /\ icLog[i].msg = msg}

IcInside(l) == {c \in IcCalls : icCalls[c].inside /\ splitFullMethodName(icCalls[c].method) = l}

\* C18: the in-flight gauge of a (service, method) label set always equals
\* the number of calls with that label set inside the metrics interceptor;
\* so it is 0 again once all of them have completed, also when the handler
\* returned an error or panicked.
C18_InFlightGauge ==
    \A l \in IcLabels : icInFlight[l] = Cardinality(IcInside(l))

C18_Witness ==
    /\ icCalls[1].pc \in {"done", "panicked"} /\ icCalls[1].panicValue = "test"
    /\ icCalls[2].pc = "done" /\ icCalls[2].err = "NotFound"
    /\ icCalls[1].method = icCalls[2].method
    /\ icCalls[1].method = <<"s", "a">>
    /\ icInFlight[<<<<"unknown">>, <<"unknown">>>>] = 0

\* C19: for a method in excludedMethods no "started" entry is written,
\* whatever callStart is, and a "finished" entry is written if and only if
\* the call ends with a status other than OK; for a method that is not
\* excluded every call that returns writes exactly one "finished" entry.
C19_ExcludedMethods ==
    icOpts.logging =>
        \A c \in IcCalls :
            LET call == icCalls[c]
                started == Cardinality(IcEntries(c, <<"gRPC call started">>))
                finished == Cardinality(IcEntries(c, <<"gRPC call finished">>))
            IN  /\ (call.pc # "new" /\ call.method \in icOpts.excludedMethods) =>
                      /\ started = 0
                      /\ call.pc = "done" => (finished = 1 <=> call.err # "OK")
                      /\ finished <= 1
                /\ (call.pc # "new" /\ call.method \notin icOpts.excludedMethods) =>
                      /\ started = IF icOpts.callStart THEN 1 ELSE 0
                      /\ finished = IF call.pc = "done" THEN 1 ELSE 0
                /\ \A i \in IcEntries(c, <<"gRPC call finished">>) :
                      icLog[i].code = call.err

C19_Witness ==
    /\ icOpts.logging /\ icOpts.callStart /\ icOpts.recovery
    /\ icOpts.excludedMethods = {IcExcluded}
    /\ icCalls[1].pc = "done" /\ icCalls[1].method = IcExcluded
    /\ icCalls[1].err = "Internal"
    /\ Cardinality(IcEntries(1, <<"gRPC call finished">>)) = 1
    /\ icCalls[2].pc = "done" /\ icCalls[2].method = IcExcluded
    /\ icCalls[2].err = "OK"
    /\ IcEntries(2, <<"gRPC call finished">>) = {}

\* the entries that call c wrote, in the order of the log
IcEntriesOf(c) == SelectSeq(icLog, LAMBDA e : e.call = c)

\* call c, to an excluded method, panicked in its handler under the chain
\* logging -> recovery and has returned
IcExcludedPanicReturned(c) ==
    /\ icOpts.logging /\ icOpts.recovery
    /\ icCalls[c].method \in icOpts.excludedMethods
    /\ icCalls[c].panicValue # ""
    /\ icCalls[c].pc = "done"

C37_LoggerPerCall ==
    /\ icLogger = {}
    /\ \A i \in 1..Len(icLog) :
          icLog[i].msg \in {<<"gRPC call started">>, <<"gRPC call finished">>}
              => icLog[i].fields = {icLog[i].call}

(***************************************************************************)
(* Request-ID interceptor                                                  *)
(***************************************************************************)

\* the values of x-request-id in the incoming metadata
IncomingIds == {<<>>, <<"">>, <<"X">>, <<"X", "Y">>, <<"", "X">>}

\* the n-th ID xid.New().String() returns: never empty, never repeated
XidStrings == <<"xid-1", "xid-2", "xid-3", "xid-4">>

\* the request ID, a fresh one whatever the metadata holds
requestIDOf_AlwaysFresh(requestIDList, fresh) == fresh

\* the request ID: the first incoming value, or a fresh one if there is
\* none or it is empty
requestIDOf(requestIDList, fresh) ==
    LET requestID == IF Len(requestIDList) > 0 THEN requestIDList[1] ELSE ""
    IN  IF requestID = "" THEN fresh ELSE requestID

\* the values of x-int-request-id in the incoming metadata
IncomingIntIds == {<<>>, <<"I">>}

\* the internal request ID, taken from the incoming metadata when present
internalRequestIDOf_FromIncoming(internalIDList, fresh) ==
    IF Len(internalIDList) > 0 THEN internalIDList[1] ELSE fresh

\* the internal request ID: a fresh one whatever the metadata holds
internalRequestIDOf(internalIDList, fresh) == fresh

ridFrame == UNCHANGED <<icOpts, icCalls, icInFlight, icLog, icLogger, nonIcVars>>

\* the external request ID: taken or minted, put in the context and in the
\* response header; a failing SetHeader ends the call
RidRequestID(c, requestIDList, internalIDList, setHeaderOk) ==
    LET call == ridCalls[c]
        requestID == IF Len(requestIDList) > 0 THEN requestIDList[1] ELSE ""
        mints == IF requestID = "" THEN 1 ELSE 0
        id == requestIDOf(requestIDList, XidStrings[ridMinted + 1])
    IN  /\ call.pc = "new"
        /\ ridMinted' = ridMinted + mints
        /\ ridCalls' = [ridCalls EXCEPT ![c] =
              [call EXCEPT !.incoming = requestIDList,
                           !.incomingInt = internalIDList,
                           !.minted = mints,
                           !.ctxRequestID = id,
                           !.header = IF setHeaderOk THEN id ELSE "none",
                           !.pc = IF setHeaderOk THEN "internal" ELSE "done",
                           !.err = IF setHeaderOk THEN "none" ELSE "setHeader"]]
        /\ ridFrame

\* the internal request ID: always minted
RidInternalID(c, setHeaderOk) ==
    LET call == ridCalls[c]
        internalRequestID == internalRequestIDOf(call.incomingInt, XidStrings[ridMinted + 1])
    IN  /\ call.pc = "internal"
        /\ ridMinted' = ridMinted + 1
        /\ ridCalls' = [ridCalls EXCEPT ![c] =
              [call EXCEPT !.minted = @ + 1,
                           !.ctxIntRequestID = internalRequestID,
                           !.intHeader = IF setHeaderOk THEN internalRequestID ELSE "none",
                           !.pc = IF setHeaderOk THEN "handler" ELSE "done",
                           !.err = IF setHeaderOk THEN "none" ELSE "setHeader"]]
        /\ ridFrame

\* the handler runs with the context built above
RidHandler(c) ==
    /\ ridCalls[c].pc = "handler"
    /\ ridCalls' = [ridCalls EXCEPT ![c].pc = "done", ![c].handlerCalls = @ + 1,
                                    ![c].err = "OK"]
    /\ UNCHANGED ridMinted
    /\ ridFrame

InitRid ==
    /\ ridCalls = [c \in RidCalls |-> NewRidCall]
    /\ ridMinted = 0
    /\ icOpts = [logging |-> FALSE, recovery |-> FALSE, callStart |-> FALSE,
                 excludedMethods |-> {}]
    /\ icCalls = [c \in IcCalls |-> NewIcCall]
    /\ icInFlight = [l \in IcLabels |-> 0]
    /\ icLog = <<>>
    /\ icLogger = {}
    /\ RlIdle /\ LbIdle /\ SwIdle /\ IflIdle /\ LruIdle /\ CacheIdle /\ SrvIdle /\ TgIdle

NextRid ==
    \E c \in RidCalls :
        \/ \E l \in IncomingIds, il \in IncomingIntIds, ok \in BOOLEAN :
              RidRequestID(c, l, il, ok)
        \/ \E ok \in BOOLEAN : RidInternalID(c, ok)
        \/ RidHandler(c)

SpecRid == InitRid /\ [][NextRid]_vars

XidSet == {XidStrings[i] : i \in 1..Len(XidStrings)}

\* C20: when the incoming metadata carries a non-empty x-request-id X, the
\* handler's context and the x-request-id response header both hold X; when
\* it carries none, both hold one newly minted, non-empty ID that no other
\* call has.
C20_RequestIDRoundTrip ==
    \A c \in RidCalls :
        LET call == ridCalls[c] IN
        call.handlerCalls > 0 =>
            /\ call.ctxRequestID = call.header
            /\ call.ctxRequestID # ""
            /\ (Len(call.incoming) > 0 /\ call.incoming[1] # "") =>
                   call.ctxRequestID = call.incoming[1]
            /\ call.incoming = <<>> =>
                   /\ call.ctxRequestID \in XidSet
                   /\ call.ctxRequestID # call.ctxIntRequestID
                   /\ call.minted = 2
                   /\ \A d \in RidCalls \ {c} :
                         /\ ridCalls[d].ctxRequestID # call.ctxRequestID
                         /\ ridCalls[d].ctxIntRequestID # call.ctxRequestID

C20_Witness ==
    /\ ridCalls[1].handlerCalls = 1 /\ ridCalls[1].incoming = <<"X", "Y">>
    /\ ridCalls[1].header = "X" /\ ridCalls[1].ctxRequestID = "X"
    /\ ridCalls[2].handlerCalls = 1 /\ ridCalls[2].incoming = <<>>
    /\ ridCalls[2].header \in XidSet /\ ridCalls[2].ctxRequestID = ridCalls[2].header

\* C21: every call whose handler runs has a freshly minted internal request
\* ID, whatever x-request-id or x-int-request-id the caller sent; the
\* handler's context and the x-int-request-id response header hold the same
\* value; and the external request ID, once set, stays as it is until the
\* call ends.
C21_InternalRequestID ==
    /\ [](\A c \in RidCalls :
            LET call == ridCalls[c] IN
            call.handlerCalls > 0 =>
                /\ call.ctxIntRequestID \in XidSet
                /\ call.ctxIntRequestID = call.intHeader
                /\ call.ctxIntRequestID # call.ctxRequestID
                /\ \A v \in 1..Len(call.incomingInt) :
                      call.incomingInt[v] # call.ctxIntRequestID
                /\ \A d \in RidCalls \ {c} :
                      /\ ridCalls[d].ctxIntRequestID # call.ctxIntRequestID
                      /\ ridCalls[d].ctxRequestID # call.ctxIntRequestID)
    /\ [][\A c \in RidCalls :
            ridCalls[c].ctxRequestID # "none" =>
                /\ ridCalls'[c].ctxRequestID = ridCalls[c].ctxRequestID
                /\ ridCalls[c].header # "none" =>
                      ridCalls'[c].header = ridCalls[c].header]_vars

C21_Witness ==
    /\ ridCalls[1].handlerCalls = 1 /\ ridCalls[1].incoming = <<"X">>
    /\ ridCalls[1].incomingInt = <<"I">>
    /\ ridCalls[1].ctxRequestID = "X"
    /\ ridCalls[1].intHeader \in XidSet
    /\ ridCalls[2].handlerCalls = 1 /\ ridCalls[2].incoming = <<>>
    /\ ridCalls[2].incomingInt = <<>>
    /\ ridCalls[2].intHeader \in XidSet

(***************************************************************************)
(* Throttle middleware: route matching and rule selection by tags          *)
(***************************************************************************)

TgTags == {"tag_a", "tag_b"}

\* the zones of the rule, in configuration order
TgZones == <<"rl_zone1", "rl_zone2", "ifl_zone1">>

TgRateZones == {"rl_zone1", "rl_zone2"}

\* burstLimit of the rate-limit zones
TgBurst == [z \in TgRateZones |-> IF z = "rl_zone1" THEN 10 ELSE 5]

\* the routes of the rule: a prefix route and an exact route
TgRuleRoutes == {[exact |-> FALSE, path |-> <<"aaa">>], [exact |-> TRUE, path |-> <<"bbb">>]}

\* the paths of the requests
TgPaths == {<<"aaa">>, <<"aaa", "x">>, <<"bbb">>, <<"bbb", "x">>, <<"ccc">>}

\* a route matches a path exactly, or as a prefix of it
routeMatches(route, path) ==
    IF route.exact THEN path = route.path
    ELSE /\ Len(path) >= Len(route.path)
         /\ SubSeq(path, 1, Len(route.path)) = route.path

ruleMatches(path) == \E route \in TgRuleRoutes : routeMatches(route, path)

checkStringSlicesIntersect(a, b) == a \cap b # {}

\* tag selection in which a rule whose tags match still has its zones
\* checked one by one
shouldApplyZone_ZoneTagsAlways(filterTags, ruleTags, zoneTags) ==
    IF filterTags = {} THEN ruleTags = {} /\ zoneTags = {}
    ELSE zoneTags # {} /\ checkStringSlicesIntersect(filterTags, zoneTags)

\* tag selection in which a middleware without tags ignores the rule's tags
shouldApplyZone_RuleTagsIgnored(filterTags, ruleTags, zoneTags) ==
    IF filterTags = {} THEN zoneTags = {}
    ELSE IF ruleTags # {} /\ checkStringSlicesIntersect(filterTags, ruleTags) THEN TRUE
    ELSE zoneTags # {} /\ checkStringSlicesIntersect(filterTags, zoneTags)

\* tag selection in which a middleware without tags ignores the zones' tags
shouldApplyZone_ZoneTagsIgnored(filterTags, ruleTags, zoneTags) ==
    IF filterTags = {} THEN ruleTags = {}
    ELSE IF ruleTags # {} /\ checkStringSlicesIntersect(filterTags, ruleTags) THEN TRUE
    ELSE zoneTags # {} /\ checkStringSlicesIntersect(filterTags, zoneTags)

\* tag selection: is a zone of a rule applied by a middleware
shouldApplyZone(filterTags, ruleTags, zoneTags) ==
    IF filterTags = {} /\ ruleTags = {} THEN zoneTags = {}
    ELSE IF filterTags = {} /\ ruleTags # {} THEN FALSE
    ELSE IF ruleTags # {} /\ checkStringSlicesIntersect(filterTags, ruleTags) THEN TRUE
    ELSE zoneTags # {} /\ checkStringSlicesIntersect(filterTags, zoneTags)

\* the zones of the rule that are applied, in configuration order
RECURSIVE appliedZones(_, _)
appliedZones(cfg, i) ==
    IF i > Len(TgZones) THEN <<>>
    ELSE (IF shouldApplyZone(cfg.tags, cfg.ruleTags, cfg.zoneTags[i])
          THEN <<TgZones[i]>> ELSE <<>>) \o appliedZones(cfg, i + 1)

\* requests admitted in a burst through the zones given: the most
\* restrictive rate-limit zone gates; 0 stands for no limit
TgAdmitted(zones) ==
    LET rate == {zones[i] : i \in 1..Len(zones)} \cap TgRateZones
    IN  IF rate = {} THEN 0
        ELSE LET z == CHOOSE y \in rate : \A x \in rate : TgBurst[y] <= TgBurst[x]
             IN  TgBurst[z] + 1

tgFrame == UNCHANGED nonTgVars

\* the middleware builds its routes
TgBuild ==
    /\ ~tgRoutes.built
    /\ tgRoutes' = [built |-> TRUE, zones |-> appliedZones(tgCfg, 1)]
    /\ UNCHANGED <<tgCfg, tgCall>>
    /\ tgFrame

\* a request is served: it passes through the zones of the rule if one of
\* the rule's routes matches its path
TgServe(path) ==
    /\ tgRoutes.built
    /\ tgCall' = [served |-> TRUE, path |-> path,
                  zones |-> IF ruleMatches(path) THEN tgRoutes.zones ELSE <<>>]
    /\ UNCHANGED <<tgCfg, tgRoutes>>
    /\ tgFrame

InitTg ==
    /\ tgCfg \in [tags : SUBSET TgTags, ruleTags : SUBSET TgTags,
                  zoneTags : [1..Len(TgZones) -> SUBSET TgTags]]
    /\ tgRoutes = [built |-> FALSE, zones |-> <<>>]
    /\ tgCall = [served |-> FALSE, path |-> <<>>, zones |-> <<>>]
    /\ RlIdle /\ LbIdle /\ SwIdle /\ IflIdle /\ LruIdle /\ CacheIdle /\ SrvIdle /\ IcIdle

NextTg ==
    \/ TgBuild
    \/ \E path \in TgPaths : TgServe(path)

SpecTg == InitTg /\ [][NextTg]_vars

TgServedMatching == tgCall.served /\ ruleMatches(tgCall.path)

\* C22: a middleware with tags and a matching rule with tags that have a tag
\* in common: every zone of the rule is applied, whatever tags the zones have.
C22_RuleTagsMatch ==
    (/\ TgServedMatching
     /\ tgCfg.tags # {} /\ tgCfg.ruleTags # {}
     /\ tgCfg.tags \cap tgCfg.ruleTags # {}) => tgCall.zones = TgZones

C22_Witness ==
    /\ TgServedMatching /\ tgCall.path = <<"aaa", "x">>
    /\ tgCfg.tags = {"tag_a"} /\ tgCfg.ruleTags = {"tag_a"}
    /\ tgCfg.zoneTags = <<{"tag_b"}, {}, {"tag_b"}>>
    /\ tgCall.zones = TgZones

C25_NoFilterAppliesAll ==
    (TgServedMatching /\ tgCfg.tags = {}) =>
        /\ tgCall.zones = TgZones
        /\ TgAdmitted(tgCall.zones) = 6

(***************************************************************************)
(* Further claims about the rate-limit interceptor                         *)
(***************************************************************************)

\* C26: a call for which getKey reports bypass has its handler invoked,
\* never asks the limiter, never enters the backlog, and none of its steps
\* changes the key zone or a slot channel.
C26_BypassTouchesNothing ==
    /\ [](\A c \in Calls :
            calls[c].first = "bypass" =>
                /\ calls[c].handlerCalls >= 1
                /\ calls[c].allowCalls = 0
                /\ ~calls[c].backlogged /\ calls[c].slot = 0 /\ ~calls[c].timers
                /\ calls[c].onRejectCalls = 0 /\ calls[c].onErrorCalls = 0)
    /\ [][\A c \in Calls :
            (calls'[c].first = "bypass" /\ calls'[c] # calls[c]) =>
                UNCHANGED <<keysZone, slots, nextChan>>]_vars

C26_Witness ==
    /\ opts.backlogLimit = 1
    /\ calls[1].first = "bypass" /\ Finished(1) /\ calls[1].handlerCalls >= 1
    /\ calls[2].first = "backlogged" /\ calls[2].backlogged
    /\ slots[calls[2].slot] = 1

\* C27: a call whose key function returns an error returns what onError
\* returned; the limiter is not asked, no backlog slot is taken and the
\* handler is not invoked.
C27_KeyErrorReturnsOnError ==
    \A c \in Calls :
        calls[c].first = "keyErr" =>
            /\ calls[c].allowCalls = 0
            /\ ~calls[c].backlogged /\ calls[c].slot = 0 /\ ~calls[c].timers
            /\ calls[c].onErrorCalls = 1 /\ calls[c].errArg = "getKey"
            /\ calls[c].handlerCalls = 0
            /\ Finished(c) => calls[c].ret = "onErrorResult"

\* the interceptor let call c through to its handler
LetThrough(c) == calls[c].last \in {"allowed", "bypass", "admitted", "dryRun"}

\* C35: a unary call that the interceptor lets through (admitted, bypassed,
\* admitted from the backlog or passed in dry-run) has its handler invoked
\* exactly once, and what the call returns is the result of that invocation.
C35_UnaryHandlerOnce ==
    \A c \in Calls :
        (opts.mode = "unary" /\ LetThrough(c)) =>
            /\ calls[c].handlerCalls = 1
            /\ Finished(c) => calls[c].ret = calls[c].hret

(***************************************************************************)
(* Two calls that can wait in the backlog at the same time. The calls are  *)
(* numbered in their order of arrival, which is the order in which they    *)
(* send to the slot channel.                                               *)
(***************************************************************************)
FifoBacklogLimit == 2

InitFifo ==
    /\ \E mode \in {"unary", "stream"}, mk \in 0..MaxMaxKeys :
          opts = newRateLimitHandler(mode, FALSE, FifoBacklogLimit, mk)
    /\ calls = [c \in Calls |-> NewCall]
    /\ sharedErr = "nil"
    /\ keysZone = <<>>
    /\ slots = [ch \in 1..(Cardinality(Calls) + 1) |-> 0]
    /\ nextChan = IF opts.maxKeys = 0 THEN 2 ELSE 1
    /\ LbIdle /\ SwIdle /\ IflIdle /\ LruIdle /\ CacheIdle /\ SrvIdle /\ IcIdle /\ TgIdle

NextFifo ==
    \E c \in Calls :
        \/ ArriveInOrder(c)
        \/ RetryTimerFires(c)
        \/ BacklogTimerFires(c)
        \/ CtxCancel(c)
        \/ SelectRetry(c)
        \/ SelectTimeout(c)
        \/ SelectCtxDone(c)
        \/ UnaryAssign(c)
        \/ UnaryCheck(c)

SpecFifo == InitFifo /\ [][NextFifo]_vars

\* call c waited in the backlog and a retry of Allow admitted it
AdmittedWaiter(c) ==
    calls[c].first = "backlogged" /\ calls[c].last = "admitted"

\* C29 as claimed: of two waiters of one key that are both admitted, the
\* one that entered the backlog first has its handler started first.
C29_BacklogFifo ==
    \A c, d \in Calls :
        (c < d /\ calls[c].key = calls[d].key
               /\ AdmittedWaiter(c) /\ AdmittedWaiter(d)) =>
            calls[c].seq < calls[d].seq

\* C29: a waiter is admitted by a retry of Allow of its own, after which it
\* has released its slot and its handler has started; no two handlers share
\* a place in the order of starts. The order of entry does not decide the
\* order of admission.
C29_AdmittedByOwnRetry ==
    \A c \in Calls :
        AdmittedWaiter(c) =>
            /\ calls[c].allowCalls >= 2
            /\ ~calls[c].backlogged
            /\ slots[calls[c].slot] <= Cardinality(Waiting(calls[c].key))
            /\ calls[c].handlerCalls >= 1
            /\ calls[c].seq >= 1
            /\ \A d \in Calls \ {c} : calls[d].seq # calls[c].seq

\* the later waiter of a key was admitted first
C29_Witness ==
    /\ calls[1].key = calls[2].key
    /\ AdmittedWaiter(1) /\ AdmittedWaiter(2)
    /\ calls[2].seq < calls[1].seq

\* the calls that hold a token of slot channel ch
SlotHolders(ch) == {c \in Calls : calls[c].backlogged /\ calls[c].slot = ch}

\* C36: a call that took a backlog slot gives back exactly one token of the
\* same channel when it leaves the backlog, whichever way it leaves, and
\* never more; one admitted from the backlog has given it back when its
\* handler starts. So every channel holds as many tokens as calls wait on
\* it, and none when no call waits.
C36_SlotReleasedOnce ==
    /\ [](/\ \A ch \in DOMAIN slots : slots[ch] = Cardinality(SlotHolders(ch))
          /\ \A c \in Calls : calls[c].backlogged <=> calls[c].pc = "waiting"
          /\ (\A c \in Calls : calls[c].pc # "waiting")
                => \A ch \in DOMAIN slots : slots[ch] = 0)
    /\ [][\A c \in Calls :
            (calls[c].pc = "waiting" /\ calls'[c].pc # "waiting") =>
                /\ slots' = [slots EXCEPT ![calls[c].slot] = @ - 1]
                /\ calls'[c].slot = calls[c].slot
                /\ calls'[c].last = "admitted" => calls'[c].handlerCalls = 1]_vars

\* two calls waited on one channel; one was admitted and the other timed
\* out, and the channel is empty again
C36_Witness ==
    /\ calls[1].slot = calls[2].slot /\ calls[1].slot # 0
    /\ calls[1].first = "backlogged" /\ calls[1].last = "admitted"
    /\ calls[2].first = "backlogged" /\ calls[2].last = "timeout"
    /\ \A ch \in DOMAIN slots : slots[ch] = 0

\* The timers of a waiting call fire (time.Timer), and a select that finds
\* the backlog timer's channel ready at every pass takes it in the end: Go's
\* select chooses uniformly at random among its ready cases. Calls need not
\* arrive, retries need not happen and contexts need not be cancelled.
SpecFifoLive ==
    /\ SpecFifo
    /\ \A c \in Calls : WF_vars(BacklogTimerFires(c)) /\ WF_vars(SelectTimeout(c))

\* the ways out of the backlog
BacklogExits == {"admitted", "timeout", "cancel", "retryErr"}

\* call c entered the backlog and has left it
LeftBacklog(c) == calls[c].first = "backlogged" /\ calls[c].pc # "waiting"

C39_RequestBacklogged ==
    \A c \in Calls :
        (calls[c].onRejectCalls + calls[c].onErrorCalls > 0) =>
            (calls[c].paramBacklogged <=> calls[c].first = "backlogged")

(***************************************************************************)
(* The interceptor in front of its limiter: dry-run off, backlog disabled, *)
(* the default onReject. The calls are numbered in their order of arrival. *)
(***************************************************************************)
RateLimitAlgs == {"leaky_bucket", "sliding_window"}

\* h.limiter.Allow(ctx, k) now, with the stores it leaves behind
Allow(alg, k) ==
    IF alg = "leaky_bucket"
    THEN LET res == RateLimitCtx(lbCfg, lbStore, k, lbNow)
             out == LeakyBucketAllow(res)
         IN  [allow |-> out.allow, retryAfter |-> out.retryAfter,
              lbStore |-> res.store, swStore |-> swStore]
    ELSE LET got == getLimiter(swStore, swCfg.maxKeys, k)
             res == LimiterAllow(got.value, swNow, swCfg.duration, swCfg.count)
             out == SlidingWindowAllow(res.ok, swNow, swCfg.duration)
         IN  [allow |-> out.allow, retryAfter |-> out.retryAfter,
              lbStore |-> lbStore,
              swStore |-> [got.list EXCEPT ![1].value = res.lim]]

\* rateLimitHandler.handle with the limiter's own answer, for a call whose
\* key function returns a key
LimArrive(c) ==
    /\ calls[c].pc = "idle"
    /\ \A d \in SlotCalls : d < c => calls[d].pc # "idle"
    /\ \E kr \in {r \in KeyResults : ~r.err /\ ~r.bypass} :
        LET out == Allow(opts.alg, kr.key)
            rec1 == [calls[c] EXCEPT !.key = kr.key, !.allowCalls = 1,
                                     !.retryAfter = out.retryAfter]
        IN  /\ lbStore' = out.lbStore
            /\ swStore' = out.swStore
            /\ IF out.allow
               THEN /\ InvokeHandler(c, [rec1 EXCEPT !.first = "allowed"], "allowed")
                    /\ UNCHANGED <<keysZone, slots, nextChan>>
               ELSE OverLimit(c, rec1)
    /\ UNCHANGED <<opts, lbCfg, lbNow, lbAdmits, lbSeen>>
    /\ UNCHANGED <<swCfg, swNow, swAdmits, swCallsNow, swPrior, swSeen, swRetryAfter>>
    /\ UNCHANGED <<iflVars, lruVars, cacheVars, srvVars, icVars, tgVars>>

\* time passes on the limiter's clock, for as long as a call is to come
LimTick ==
    /\ \E c \in SlotCalls : calls[c].pc = "idle"
    /\ IF opts.alg = "leaky_bucket" THEN LbTick ELSE SwTick

InitLim ==
    /\ \E mode \in {"unary", "stream"}, mk \in 0..MaxMaxKeys, a \in RateLimitAlgs :
          opts = newRateLimitHandler(mode, FALSE, 0, mk) @@ [alg |-> a]
    /\ calls = [c \in SlotCalls |-> NewCall]
    /\ sharedErr = "nil"
    /\ keysZone = <<>>
    /\ slots = [ch \in 1..(Cardinality(SlotCalls) + 1) |-> 0]
    /\ nextChan = IF opts.maxKeys = 0 THEN 2 ELSE 1
    /\ IF opts.alg = "leaky_bucket"
       THEN /\ \E n \in 1..MaxRateCount, d \in 1..MaxRateDuration, b \in 0..MaxBurst :
                  /\ d >= n
                  /\ lbCfg = [count |-> n, duration |-> d, maxBurst |-> b,
                              maxKeys |-> opts.maxKeys]
            /\ lbNow = 0 /\ lbStore = <<>> /\ lbAdmits = <<>> /\ lbSeen = {}
            /\ SwIdle
       ELSE /\ \E n \in 1..MaxRateCount, d \in 1..MaxRateDuration :
                  swCfg = [count |-> n, duration |-> d, maxKeys |-> opts.maxKeys]
            /\ swNow = 0 /\ swStore = <<>> /\ swAdmits = <<>> /\ swCallsNow = 0
            /\ swPrior = FALSE /\ swSeen = {} /\ swRetryAfter = 0
            /\ LbIdle
    /\ IflIdle /\ LruIdle /\ CacheIdle /\ SrvIdle /\ IcIdle /\ TgIdle

NextLim ==
    \/ \E c \in SlotCalls : LimArrive(c)
    \/ \E c \in SlotCalls : UnaryAssign(c)
    \/ \E c \in SlotCalls : UnaryCheck(c)
    \/ LimTick

SpecLim == InitLim /\ [][NextLim]_vars

\* the calls that have asked the limiter about key k
LimAsked(k) ==
    {c \in SlotCalls : calls[c].allowCalls > 0 /\ calls[c].key = k}

\* every call so far has asked the leaky bucket about key k, within less
\* than one emission interval of the bucket's creation
LimBurst(k) ==
    /\ opts.alg = "leaky_bucket"
    /\ lbNow < EmissionInterval(lbCfg)
    /\ LimAsked(k) # {}
    /\ \A c \in SlotCalls : calls[c].pc # "idle" => c \in LimAsked(k)

\* C28: of the calls for one key that reach a fresh leaky bucket within
\* less than one emission interval, exactly min(N, maxBurst + 1) are
\* admitted, and each of the others returns what onReject returned without
\* its handler having been invoked.
C28_BurstAdmitsExactly ==
    \A k \in Keys \cup {""} :
        LimBurst(k) =>
            /\ Cardinality({c \in LimAsked(k) : calls[c].first = "allowed"})
                  = Min(Cardinality(LimAsked(k)), lbCfg.maxBurst + 1)
            /\ \A c \in LimAsked(k) :
                  calls[c].first # "allowed" =>
                      /\ calls[c].handlerCalls = 0
                      /\ Finished(c) => calls[c].ret = "onRejectResult"

\* the rate period of the limiter in use
LimPeriod ==
    IF opts.alg = "leaky_bucket" THEN lbCfg.duration ELSE swCfg.duration

\* the retry-after header of call c is the estimate it was rejected with,
\* rounded up to whole seconds, above 0 and at most the period rounded up
RetryAfterHeaderOk(c) ==
    /\ calls[c].header * TicksPerSecond >= calls[c].retryAfter
    /\ (calls[c].header - 1) * TicksPerSecond < calls[c].retryAfter
    /\ calls[c].header > 0
    /\ (calls[c].header - 1) * TicksPerSecond < LimPeriod

\* C30: a call that the default onReject rejected carries a retry-after
\* header equal to the limiter's estimate rounded up to whole seconds, above
\* 0 and at most the rate period rounded up, and it returns what onReject
\* returned (ResourceExhausted).
C30_RetryAfterHeader ==
    \A c \in SlotCalls :
        calls[c].onRejectCalls > 0 =>
            /\ RetryAfterHeaderOk(c)
            /\ Finished(c) => calls[c].ret = "onRejectResult"

====
